---- MODULE Spec2Model ----
(***************************************************************************)
(* The client-side table state machine of the bibliography review tool:    *)
(* filter pass, header-click sort, count recomputation, quick edits with   *)
(* optimistic update and rollback (static/ghpages.js, static/filtering.js, *)
(* static/comms.js as found in unnamed/part_001).                          *)
(*                                                                         *)
(* Text is a sequence of one-character strings.  The glyphs of the status  *)
(* cells are written as the words below, each standing for one character:  *)
(*   "yes" = check mark, "no" = cross, "unk" = question mark,              *)
(*   "user" = person, "computer" = screen, "other" = any other text.       *)
(***************************************************************************)
EXTENDS Integers, Sequences, FiniteSets, TLC

\* ------------------------------------------------------------------ bounds
NumRows == 2
MaxEvents == 3
MaxPending == 2
MaxTime == 500

Rows == 1..NumRows

\* ------------------------------------------------------------------ text
Digits == <<"0", "1", "2", "3", "4", "5", "6", "7", "8", "9">>

\* Code-unit order of the characters the model uses (ASCII order).
CharOrder == <<" ", "-", "0", "1", "2", "3", "4", "5", "6", "7", "8", "9",
               "B", "C", "P", "a", "b", "c", "n", "p", "x">>

IsDigit(c) == \E i \in 1..10 : Digits[i] = c

DigitVal(c) == (CHOOSE i \in 1..10 : Digits[i] = c) - 1

CharCode(c) == CHOOSE i \in 1..Len(CharOrder) : CharOrder[i] = c

RECURSIVE TrimStart(_)
TrimStart(s) == IF s # <<>> /\ Head(s) = " " THEN TrimStart(Tail(s)) ELSE s

RECURSIVE TrimEnd(_)
TrimEnd(s) ==
    IF s # <<>> /\ s[Len(s)] = " " THEN TrimEnd(SubSeq(s, 1, Len(s) - 1)) ELSE s

\* String.prototype.trim
Trim(s) == TrimEnd(TrimStart(s))

LowerChar(c) ==
    CASE c = "B" -> "b" [] c = "C" -> "c" [] c = "P" -> "p" [] OTHER -> c

\* String.prototype.toLowerCase
ToLowerCase(s) == [i \in 1..Len(s) |-> LowerChar(s[i])]

\* String.prototype.includes
Includes(hay, needle) ==
    \E i \in 0..(Len(hay) - Len(needle)) :
        SubSeq(hay, i + 1, i + Len(needle)) = needle

\* The operators < and > of JavaScript on two strings: code-unit order.
RECURSIVE StrLess(_, _)
StrLess(a, b) ==
    IF b = <<>> THEN FALSE
    ELSE IF a = <<>> THEN TRUE
    ELSE IF Head(a) # Head(b) THEN CharCode(Head(a)) < CharCode(Head(b))
    ELSE StrLess(Tail(a), Tail(b))

\* A number of JavaScript: NaN, or an integer.
NaN == [nan |-> TRUE, val |-> 0]
Num(n) == [nan |-> FALSE, val |-> n]

RECURSIVE DigitPrefix(_, _)
\* The value of the longest prefix of digits of s, read after acc.
DigitPrefix(s, acc) ==
    IF s # <<>> /\ IsDigit(Head(s))
    THEN DigitPrefix(Tail(s), acc * 10 + DigitVal(Head(s)))
    ELSE acc

\* parseInt(s, 10): leading blanks skipped, an optional sign, then the longest
\* prefix of digits; NaN when there is no digit.  The texts of the model hold
\* no "." and no exponent, so parseFloat reads the same number.
ParseInt(s) ==
    LET t == TrimStart(s)
        neg == t # <<>> /\ Head(t) = "-"
        u == IF neg THEN Tail(t) ELSE t
    IN  IF u = <<>> \/ ~IsDigit(Head(u)) THEN NaN
        ELSE Num(IF neg THEN 0 - DigitPrefix(u, 0) ELSE DigitPrefix(u, 0))

ParseFloat(s) == ParseInt(s)

\* x || 0 on a number: NaN and 0 are falsy.
OrZero(x) == IF x.nan THEN 0 ELSE x.val

\* ------------------------------------------------------------------ tables
\* STATUS_CYCLE sending the value of the glyph the cell leaves.
STATUS_CYCLE_StaleValue ==
    ("unk" :> [next |-> "yes", value |-> "unknown"]) @@
    ("yes" :> [next |-> "no", value |-> "true"]) @@
    ("no" :> [next |-> "unk", value |-> "false"])

STATUS_CYCLE ==
    ("unk" :> [next |-> "yes", value |-> "true"]) @@
    ("yes" :> [next |-> "no", value |-> "false"]) @@
    ("no" :> [next |-> "unk", value |-> "unknown"])

VERIFIED_BY_CYCLE ==
    ("user" :> [next |-> "unk", value |-> "unknown"]) @@
    ("unk" :> [next |-> "user", value |-> "user"]) @@
    ("computer" :> [next |-> "unk", value |-> "unknown"])

\* cell.style.backgroundColor: the flash of a clicked cell, and none.
FlashColor == "#f9e79f"
NoHighlight == ""

\* The cells a click flashes: the status cell and the verified-by cell.
FlashFields == {"is_offtopic", "verified_by"}

SYMBOL_SORT_WEIGHTS == ("yes" :> 2) @@ ("no" :> 1) @@ ("unk" :> 0)

\* The counted fields the model keeps: one three-state status field and the
\* two actor-attribution fields.
COUNT_FIELDS == <<"is_offtopic", "changed_by", "verified_by">>

CountFieldSet == {COUNT_FIELDS[i] : i \in 1..Len(COUNT_FIELDS)}

\* The th[data-sort] headers the model keeps: a numeric column, a text column
\* and a status column.
SortColumns == {"year", "title", "is_offtopic"}

\* renderChangedBy: the text of the span it builds.
renderChangedBy(value) ==
    IF value = "user" THEN "user"
    ELSE IF value = "null" \/ value = "" THEN "unk"
    ELSE "computer"

\* ------------------------------------------------------------------ state
VARIABLES
    rowData,            \* per row: the texts no handler of the model writes
    tbody,              \* the children of #papersTable tbody, in order
    filterHidden,       \* the tr elements carrying class filter-hidden
    expanded,           \* the tr elements carrying class expanded
    cellText,           \* textContent of the [data-field] cells of each main row
    verifySpan,         \* whether the .editable-verify cell holds a span child
    changedCell,        \* textContent of .changed-cell of each main row
    controls,           \* values of the filter controls
    filterTimeoutId,    \* whether the debounce timer is pending
    taskQueue,          \* pending setTimeout(..., 0) callbacks, oldest first
    rafPending,         \* whether requestAnimationFrame callbacks are pending
    busyCursor,         \* class busyCursor on the document element
    currentClientSort,  \* {column, direction}
    requests,           \* /update_paper requests in flight
    events,             \* user events (inputs and clicks) so far
    counts,             \* textContent of the count-<field> cells
    visibleCountCell,   \* the two figures of #visible-count-cell
    placeholder,        \* content of .detail-content-placeholder of each detail row
    detailRequests,     \* /get_detail_row requests in flight
    detailLog,          \* per row: the /get_detail_row requests sent so far
    isBatchRunning,     \* the flag of runBatchAction
    batchStatusMessage, \* textContent of #batch-status-message
    batchDisabled,      \* the disabled property of the four batch buttons
    batchRequests,      \* /classify and /verify batch requests in flight
    url,                \* the query parameters of window.location
    loadRequests,       \* /load_table requests in flight
    loadLog,            \* the parameters of the /load_table requests sent so far
    now,                \* the clock, in ms
    timerSetAt,         \* when the pending debounce timer was set
    shade,              \* the alt-shade classes each table row carries
    raised,             \* the last run of applyAlternatingShading threw
    journalRows,        \* per row of a table with journal names: the text of
                        \* cells[3], class filter-hidden, the cell's background
    saveButton,         \* per row: disabled and textContent of the .save-btn
    formInputs,         \* per row: the values of the inputs of form-<paperId>
    saveRequests,       \* /update_paper requests of saveChanges in flight
    saveTimers,         \* pending setTimeout(..., 1500) callbacks of saveChanges
    relevanceCell,      \* per row: textContent of td:nth-child(7)
    saveBtnInMainRow,   \* whether row.querySelector('.save-btn') finds the button
    actionButton,       \* per row and action: disabled and text of the
                        \* .classify-btn and the .verify-btn
    actionRequests,     \* /classify and /verify requests of one paper in flight
    highlight,          \* per row and field: style.backgroundColor of the
                        \* .editable-status and the .editable-verify cell
    flashTimers         \* pending setTimeout(..., 300) callbacks of the clicks

\* The state of the statically filtered page.
pageVars == <<rowData, tbody, filterHidden, expanded, cellText, verifySpan,
              changedCell, controls, filterTimeoutId, taskQueue, rafPending,
              busyCursor, currentClientSort, requests, events, counts,
              visibleCountCell>>

\* The state only the server-backed page (filtering.js, comms.js) uses.
serverVars == <<placeholder, detailRequests, detailLog, isBatchRunning,
                batchStatusMessage, batchDisabled, batchRequests, url,
                loadRequests, loadLog,
                now, timerSetAt>>

\* What applyAlternatingShading and applyJournalShading leave behind.
shadeVars == <<shade, raised, journalRows>>

\* What the detail form and the per-row buttons add.
editVars == <<saveButton, formInputs, saveRequests, saveTimers, relevanceCell,
              saveBtnInMainRow, actionButton, actionRequests, highlight,
              flashTimers>>

\* What the flash of a clicked cell adds.
flashVars == <<highlight, flashTimers>>

restVars == <<shadeVars, editVars>>

vars == <<pageVars, serverVars, shadeVars, editVars>>

\* ------------------------------------------------------------------ DOM
Main(r) == [kind |-> "main", row |-> r]
Detail(r) == [kind |-> "detail", row |-> r]
NoElem == [kind |-> "none", row |-> 0]

\* row.getAttribute('data-paper-id'): the ids "9", "10", "14", "15", ... in
\* the order the server rendered the rows.
PaperId(r) ==
    IF r = 1 THEN <<"9">>
    ELSE IF r = 2 THEN <<"1", "0">>
    ELSE <<"1", Digits[((r + 1) % 10) + 1]>>

IndexOf(seq, e) ==
    IF \E i \in 1..Len(seq) : seq[i] = e
    THEN CHOOSE i \in 1..Len(seq) : seq[i] = e /\ \A j \in 1..(i - 1) : seq[j] # e
    ELSE 0

\* element.nextElementSibling
NextElementSibling(tb, e) ==
    LET i == IndexOf(tb, e)
    IN  IF i = 0 \/ i = Len(tb) THEN NoElem ELSE tb[i + 1]

RECURSIVE SelectSeqBy(_, _)
\* The elements of seq that are in the set keep, in order.
SelectSeqBy(seq, keep) ==
    IF seq = <<>> THEN <<>>
    ELSE IF Head(seq) \in keep THEN <<Head(seq)>> \o SelectSeqBy(Tail(seq), keep)
    ELSE SelectSeqBy(Tail(seq), keep)

Elems(seq) == {seq[i] : i \in 1..Len(seq)}

\* querySelectorAll('#papersTable tbody tr[data-paper-id]')
MainRows(tb) == SelectSeqBy(tb, {e \in Elems(tb) : e.kind = "main"})

\* querySelectorAll('#papersTable tbody tr[data-paper-id]:not(.filter-hidden)')
VisibleMainRows(tb, hid) ==
    SelectSeqBy(tb, {e \in Elems(tb) : e.kind = "main" /\ e \notin hid})

\* Every element a table body can hold.
AllElems == {Main(r) : r \in Rows} \cup {Detail(r) : r \in Rows}

\* ------------------------------------------------------------------ filter
\* row.cells[2] is the year cell and row.cells[4] the page-count cell.
YearCellIndex == 2
PagesCellIndex == 4

\* What querySelector returns for a cell the row does not have.
NoCell == "null"

\* row.cells[index] is an element: the row has more than index cells.
HasCell(r, index, data) == data[r].cellCount > index

\* textContent of a glyph cell as part of the text of its row.
GlyphCellText(cell) == IF cell = NoCell THEN <<>> ELSE <<cell>>

\* row.textContent of a main row: the texts of its cells, in column order.
RowTextContent(r, data, cells, chg) ==
    data[r].title \o
    (IF HasCell(r, YearCellIndex, data) THEN data[r].year ELSE <<>>) \o
    (IF HasCell(r, PagesCellIndex, data) THEN data[r].pages ELSE <<>>) \o
    GlyphCellText(cells[r]["is_offtopic"]) \o
    <<chg[r], cells[r]["changed_by"], cells[r]["verified_by"]>>

\* DetailTextWithoutTrace with the trace content left in the clone.
DetailTextKeepingTrace(r, data) == data[r].detail \o data[r].trace

\* textContent of the clone of a detail row once the .trace-content elements
\* are removed from it.
DetailTextWithoutTrace(r, data) == data[r].detail

\* textContent of a detail row as loaded.
DetailTextContent(r, data) == data[r].detail \o data[r].trace

RECURSIVE ScanForDetail(_, _)
\* The loop over nextElementSibling of applyFilters, started at position j:
\* the first detail row met before any other main row, or null.
ScanForDetail(tb, j) ==
    IF j > Len(tb) THEN NoElem
    ELSE IF tb[j].kind = "detail" THEN tb[j]
    ELSE IF tb[j].kind = "main" THEN NoElem
    ELSE ScanForDetail(tb, j + 1)

FindDetailRow(tb, e) == ScanForDetail(tb, IndexOf(tb, e) + 1)

\* ShowRow with the off-topic and search criteria alone deciding.
ShowRowWithoutNumericCriteria(tb, e, ctl, data, cells, chg) ==
    LET r == e.row
        detailRow == FindDetailRow(tb, e)
        searchTerm == Trim(ToLowerCase(ctl.search))
        rowText == ToLowerCase(RowTextContent(r, data, cells, chg))
        detailText ==
            IF detailRow = NoElem THEN <<>>
            ELSE ToLowerCase(DetailTextWithoutTrace(detailRow.row, data))
    IN  /\ ~(/\ ctl.hideOfftopic
              /\ cells[r]["is_offtopic"] # NoCell
              /\ cells[r]["is_offtopic"] = "yes")
        /\ \/ searchTerm = <<>>
           \/ Includes(rowText, searchTerm)
           \/ Includes(detailText, searchTerm)

\* ShowRow hiding a row whose page count equals the minimum too.
ShowRowPagesInclusive(tb, e, ctl, data, cells, chg) ==
    LET r == e.row
        detailRow == FindDetailRow(tb, e)
        searchTerm == Trim(ToLowerCase(ctl.search))
        minPageCountValue == OrZero(ParseInt(ctl.minPages))
        yearFromValue == OrZero(ParseInt(ctl.yearFrom))
        yearTo == ParseInt(ctl.yearTo)
        yearToInfinity == yearTo.nan \/ yearTo.val = 0
        offtopicCell == cells[r]["is_offtopic"]
        offtopicHides ==
            ctl.hideOfftopic /\ offtopicCell # NoCell /\ offtopicCell = "yes"
        pageCountText == Trim(data[r].pages)
        pageCount == ParseInt(pageCountText)
        pagesHide ==
            /\ minPageCountValue > 0
            /\ HasCell(r, PagesCellIndex, data)
            /\ pageCountText # <<>>
            /\ ~pageCount.nan
            /\ pageCount.val <= minPageCountValue
        yearText == Trim(data[r].year)
        year == IF yearText # <<>> THEN ParseInt(yearText) ELSE NaN
        yearHides ==
            /\ HasCell(r, YearCellIndex, data)
            /\ \/ year.nan
               \/ year.val < yearFromValue
               \/ (~yearToInfinity /\ year.val > yearTo.val)
        rowText == ToLowerCase(RowTextContent(r, data, cells, chg))
        detailText ==
            IF detailRow = NoElem THEN <<>>
            ELSE ToLowerCase(DetailTextWithoutTrace(detailRow.row, data))
        searchHides ==
            /\ searchTerm # <<>>
            /\ ~Includes(rowText, searchTerm)
            /\ ~Includes(detailText, searchTerm)
    IN  ~offtopicHides /\ ~pagesHide /\ ~yearHides /\ ~searchHides

\* The value of showRow at the end of one iteration of applyFilters.
ShowRow(tb, e, ctl, data, cells, chg) ==
    LET r == e.row
        detailRow == FindDetailRow(tb, e)
        searchTerm == Trim(ToLowerCase(ctl.search))
        minPageCountValue == OrZero(ParseInt(ctl.minPages))
        yearFromValue == OrZero(ParseInt(ctl.yearFrom))
        yearTo == ParseInt(ctl.yearTo)
        yearToInfinity == yearTo.nan \/ yearTo.val = 0
        offtopicCell == cells[r]["is_offtopic"]
        offtopicHides ==
            ctl.hideOfftopic /\ offtopicCell # NoCell /\ offtopicCell = "yes"
        pageCountText == Trim(data[r].pages)
        pageCount == ParseInt(pageCountText)
        pagesHide ==
            /\ minPageCountValue > 0
            /\ HasCell(r, PagesCellIndex, data)
            /\ pageCountText # <<>>
            /\ ~pageCount.nan
            /\ pageCount.val < minPageCountValue
        yearText == Trim(data[r].year)
        year == IF yearText # <<>> THEN ParseInt(yearText) ELSE NaN
        yearHides ==
            /\ HasCell(r, YearCellIndex, data)
            /\ \/ year.nan
               \/ year.val < yearFromValue
               \/ (~yearToInfinity /\ year.val > yearTo.val)
        rowText == ToLowerCase(RowTextContent(r, data, cells, chg))
        detailText ==
            IF detailRow = NoElem THEN <<>>
            ELSE ToLowerCase(DetailTextWithoutTrace(detailRow.row, data))
        searchHides ==
            /\ searchTerm # <<>>
            /\ ~Includes(rowText, searchTerm)
            /\ ~Includes(detailText, searchTerm)
    IN  ~offtopicHides /\ ~pagesHide /\ ~yearHides /\ ~searchHides

\* ToggleHidden that adds the marker and never removes it.
ToggleHiddenAddOnly(hid, e, force) == IF force THEN hid \cup {e} ELSE hid

\* classList.toggle('filter-hidden', force) on one element.
ToggleHidden(hid, e, force) == IF force THEN hid \cup {e} ELSE hid \ {e}

RECURSIVE FilterLoopMainOnly(_, _, _, _, _, _, _, _)
\* FilterLoop with the marker of the detail row left as it was.
FilterLoopMainOnly(rows, i, tb, hid, ctl, data, cells, chg) ==
    IF i > Len(rows) THEN hid
    ELSE FilterLoopMainOnly(rows, i + 1, tb,
             ToggleHidden(hid, rows[i],
                          ~ShowRow(tb, rows[i], ctl, data, cells, chg)),
             ctl, data, cells, chg)

RECURSIVE FilterLoop(_, _, _, _, _, _, _, _)
\* rows.forEach of applyFilters from the i-th main row on: the set of elements
\* carrying filter-hidden afterwards.
FilterLoop(rows, i, tb, hid, ctl, data, cells, chg) ==
    IF i > Len(rows) THEN hid
    ELSE LET e == rows[i]
             detailRow == FindDetailRow(tb, e)
             showRow == ShowRow(tb, e, ctl, data, cells, chg)
             h1 == ToggleHidden(hid, e, ~showRow)
             h2 == IF detailRow = NoElem THEN h1
                   ELSE ToggleHidden(h1, detailRow, ~showRow)
         IN  FilterLoop(rows, i + 1, tb, h2, ctl, data, cells, chg)

\* The visibility part of applyFilters (ghpages.js).
FilterPass(tb, hid, ctl, data, cells, chg) ==
    FilterLoop(MainRows(tb), 1, tb, hid, ctl, data, cells, chg)

\* ------------------------------------------------------------------ counts
\* The glyph updateCounts counts for a field.
CountedGlyph(field) ==
    IF field = "changed_by" \/ field = "verified_by" THEN "user" ELSE "yes"

RECURSIVE CountRows(_, _, _)
CountRows(rows, field, cells) ==
    IF rows = <<>> THEN 0
    ELSE LET cell == cells[Head(rows).row][field]
         IN  (IF cell # NoCell /\ cell = CountedGlyph(field) THEN 1 ELSE 0)
             + CountRows(Tail(rows), field, cells)

\* ------------------------------------------------------------------ shading
\* The two classes applyAlternatingShading removes and adds.
ShadeClasses == {"alt-shade-1", "alt-shade-2"}

\* The rows as rendered: none carries a shade class.
NoShade == [e \in AllElems |-> {}]

RECURSIVE ShadeLoopAccumulating(_, _, _, _)
\* ShadeLoop adding the class without removing the classes already there.
ShadeLoopAccumulating(rows, i, tb, sh) ==
    IF i > Len(rows) THEN [shade |-> sh, raised |-> FALSE]
    ELSE LET mainRow == rows[i]
             shadeClass == IF (i - 1) % 2 = 0 THEN "alt-shade-1"
                           ELSE "alt-shade-2"
             s1 == [sh EXCEPT ![mainRow] = @ \cup {shadeClass}]
             sibling == NextElementSibling(tb, mainRow)
         IN  IF sibling = NoElem THEN [shade |-> s1, raised |-> TRUE]
             ELSE ShadeLoopAccumulating(rows, i + 1, tb,
                      [s1 EXCEPT ![sibling] = @ \cup {shadeClass}])

RECURSIVE ShadeLoop(_, _, _, _)
\* visibleMainRows.forEach of applyAlternatingShading from the i-th visible
\* main row on.  The class goes on the main row and on its
\* nextElementSibling, whatever that element is; with no next element the
\* access to classList of null throws and the loop ends there.
ShadeLoop(rows, i, tb, sh) ==
    IF i > Len(rows) THEN [shade |-> sh, raised |-> FALSE]
    ELSE LET mainRow == rows[i]
             shadeClass == IF (i - 1) % 2 = 0 THEN "alt-shade-1"
                           ELSE "alt-shade-2"
             s1 == [sh EXCEPT ![mainRow] = (@ \ ShadeClasses) \cup {shadeClass}]
             sibling == NextElementSibling(tb, mainRow)
         IN  IF sibling = NoElem THEN [shade |-> s1, raised |-> TRUE]
             ELSE ShadeLoop(rows, i + 1, tb,
                      [s1 EXCEPT ![sibling] =
                                     (@ \ ShadeClasses) \cup {shadeClass}])

\* applyAlternatingShading: the classes afterwards, and whether it threw.
applyAlternatingShading(tb, hid, sh) ==
    ShadeLoop(VisibleMainRows(tb, hid), 1, tb, sh)

\* UpdateCountsFields counting the hidden rows too.
UpdateCountsFieldsAllRows(tb, hid, cells) ==
    [f \in CountFieldSet |-> CountRows(MainRows(tb), f, cells)]

\* updateCounts: what it writes to the count-<field> cells.
UpdateCountsFields(tb, hid, cells) ==
    [f \in CountFieldSet |-> CountRows(VisibleMainRows(tb, hid), f, cells)]

\* updateCounts: what it writes to #visible-count-cell.
UpdateCountsVisible(tb, hid) ==
    [visible |-> Len(VisibleMainRows(tb, hid)), total |-> Len(MainRows(tb))]

\* ------------------------------------------------------------------ sort
NumValue(n) == [num |-> TRUE, n |-> n, s |-> <<>>]
StrValue(t) == [num |-> FALSE, n |-> 0, s |-> t]

\* a > b of JavaScript on two cell values of one column.
ValueGreater(a, b) == IF a.num THEN a.n > b.n ELSE StrLess(b.s, a.s)

\* SortValue comparing the page counts as texts.
SortValuePagesAsText(r, sortBy, data, cells) ==
    IF sortBy = "year" THEN NumValue(OrZero(ParseFloat(Trim(data[r].year))))
    ELSE IF sortBy = "page_count" THEN StrValue(Trim(data[r].pages))
    ELSE IF sortBy = "title" THEN StrValue(Trim(data[r].title))
    ELSE LET t == cells[r][sortBy]
         IN  NumValue(IF t \in DOMAIN SYMBOL_SORT_WEIGHTS
                      THEN SYMBOL_SORT_WEIGHTS[t] ELSE 0)

\* The cellValue the header click handler extracts for a main row.
SortValue(r, sortBy, data, cells) ==
    IF sortBy = "year" THEN NumValue(OrZero(ParseFloat(Trim(data[r].year))))
    ELSE IF sortBy = "page_count"
    THEN NumValue(OrZero(ParseFloat(Trim(data[r].pages))))
    ELSE IF sortBy = "title" THEN StrValue(Trim(data[r].title))
    ELSE LET t == cells[r][sortBy]
         IN  NumValue(IF t \in DOMAIN SYMBOL_SORT_WEIGHTS
                      THEN SYMBOL_SORT_WEIGHTS[t] ELSE 0)

\* One entry of sortData.
SortEntry(tb, e, sortBy, data, cells) ==
    [value |-> SortValue(e.row, sortBy, data, cells),
     mainRow |-> e,
     detailRow |-> NextElementSibling(tb, e),
     paperId |-> PaperId(e.row)]

\* Comparator with the row-id tie-break kept ascending in both directions.
ComparatorTiesAscending(a, b, newDirection) ==
    IF ValueGreater(a.value, b.value)
    THEN (IF newDirection = "DESC" THEN -1 ELSE 1)
    ELSE IF ValueGreater(b.value, a.value)
    THEN (IF newDirection = "DESC" THEN 1 ELSE -1)
    ELSE IF StrLess(b.paperId, a.paperId) THEN 1
    ELSE IF StrLess(a.paperId, b.paperId) THEN -1
    ELSE 0

\* Comparator on the primary value alone, without the row-id tie-break.
ComparatorWithoutTieBreak(a, b, newDirection) ==
    LET comparison ==
            IF ValueGreater(a.value, b.value) THEN 1
            ELSE IF ValueGreater(b.value, a.value) THEN -1
            ELSE 0
    IN  IF newDirection = "DESC" THEN 0 - comparison ELSE comparison

\* The comparator handed to sortData.sort.
Comparator(a, b, newDirection) ==
    LET comparison ==
            IF ValueGreater(a.value, b.value) THEN 1
            ELSE IF ValueGreater(b.value, a.value) THEN -1
            ELSE IF StrLess(b.paperId, a.paperId) THEN 1
            ELSE IF StrLess(a.paperId, b.paperId) THEN -1
            ELSE 0
    IN  IF newDirection = "DESC" THEN 0 - comparison ELSE comparison

\* x put into the sorted sequence after the last entry that does not compare
\* greater than it.
InsertSorted(sorted, x, dir) ==
    LET below == {j \in 1..Len(sorted) : Comparator(sorted[j], x, dir) <= 0}
        k == IF below = {} THEN 0
             ELSE CHOOSE j \in below : \A i \in below : i <= j
    IN  SubSeq(sorted, 1, k) \o <<x>> \o SubSeq(sorted, k + 1, Len(sorted))

RECURSIVE ArraySort(_, _)
\* Array.prototype.sort with the comparator: a stable sort.
ArraySort(seq, dir) ==
    IF seq = <<>> THEN <<>>
    ELSE InsertSorted(ArraySort(SubSeq(seq, 1, Len(seq) - 1), dir),
                      seq[Len(seq)], dir)

\* node.appendChild(e): e leaves the place it had and becomes the last child.
AppendChild(children, e) ==
    SelectSeqBy(children, Elems(children) \ {e}) \o <<e>>

RECURSIVE BuildFragmentMainOnly(_, _, _)
\* BuildFragment moving the main rows alone.
BuildFragmentMainOnly(sortData, i, fragment) ==
    IF i > Len(sortData) THEN fragment
    ELSE BuildFragmentMainOnly(sortData, i + 1,
             AppendChild(fragment, sortData[i].mainRow))

RECURSIVE BuildFragment(_, _, _)
\* The loop that moves every sorted main row and its detail row into the
\* fragment: the children of the fragment afterwards.
BuildFragment(sortData, i, fragment) ==
    IF i > Len(sortData) THEN fragment
    ELSE BuildFragment(sortData, i + 1,
             AppendChild(AppendChild(fragment, sortData[i].mainRow),
                         sortData[i].detailRow))

\* The children of tbody after the header click handler: the rows it did not
\* move, then the children of the fragment.
SortedBody(tb, hid, sortBy, newDirection, data, cells) ==
    LET visibleMainRows == VisibleMainRows(tb, hid)
        sortData == ArraySort(
            [i \in 1..Len(visibleMainRows) |->
                SortEntry(tb, visibleMainRows[i], sortBy, data, cells)],
            newDirection)
        fragment == BuildFragment(sortData, 1, <<>>)
    IN  SelectSeqBy(tb, Elems(tb) \ Elems(fragment)) \o fragment

\* NewDirection without the toggle on the active column.
NewDirectionNoToggle(sort, sortBy) == "DESC"

\* NewDirection flipping the stored direction whatever the column clicked.
NewDirectionAlwaysToggles(sort, sortBy) ==
    IF sort.direction = "DESC" THEN "ASC" ELSE "DESC"

\* The direction the header click handler chooses.
NewDirection(sort, sortBy) ==
    IF sort.column = sortBy
    THEN (IF sort.direction = "DESC" THEN "ASC" ELSE "DESC")
    ELSE "DESC"

\* ------------------------------------------------------------------ inputs
\* What the user may type into the controls.
SearchInputs == {<<>>, <<"C", "a">>, <<" ", "x">>}
PageInputs == {<<>>, <<"5">>}
YearInputs == {<<>>, <<"2", "0", "2", "0">>}

ControlValues(name) ==
    CASE name = "search" -> SearchInputs
      [] name = "hideOfftopic" -> BOOLEAN
      [] name = "minPages" -> PageInputs
      [] name = "yearFrom" -> YearInputs
      [] name = "yearTo" -> YearInputs

ControlNames == {"search", "hideOfftopic", "minPages", "yearFrom", "yearTo"}

\* The controls the user touches in the specification of the whole page.
TouchedControls == {"search", "hideOfftopic"}

DefaultControls ==
    [search |-> <<>>, hideOfftopic |-> FALSE, minPages |-> <<>>,
     yearFrom |-> <<>>, yearTo |-> <<>>]

\* The table the server rendered: the texts of row r.
FixtureRow(r) ==
    IF r = 1 THEN [title |-> <<"P", "c", "b">>, year |-> <<"2", "0", "2", "1">>,
                   pages |-> <<"8">>, cellCount |-> PagesCellIndex + 1,
                   detail |-> <<"c", "a", "p">>, trace |-> <<"x">>]
    ELSE IF r = 2 THEN [title |-> <<"P", "c", "b">>, year |-> <<"2", "0", "2", "1">>,
                   pages |-> <<>>, cellCount |-> PagesCellIndex + 1,
                   detail |-> <<"a", "b">>, trace |-> <<"x">>]
    ELSE [title |-> <<"C", "a", "p">>, year |-> <<"2", "0", "1", "9">>,
          pages |-> <<"3">>, cellCount |-> PagesCellIndex + 1,
          detail |-> <<>>, trace |-> <<>>]

\* The table the server rendered: the glyph cells of row r.  The off-topic
\* cell of row 2 holds a text that is none of the three status glyphs.
FixtureCells(r) ==
    IF r = 1 THEN [is_offtopic |-> "yes", changed_by |-> "unk", verified_by |-> "unk"]
    ELSE IF r = 2 THEN [is_offtopic |-> "other", changed_by |-> "computer",
                        verified_by |-> "computer"]
    ELSE [is_offtopic |-> "unk", changed_by |-> "user", verified_by |-> "user"]

RECURSIVE RenderedBody(_)
\* The tbody as rendered: every main row directly followed by its detail row.
RenderedBody(n) ==
    IF n = 0 THEN <<>> ELSE RenderedBody(n - 1) \o <<Main(n), Detail(n)>>

\* A query parameter of the URL: absent, or present with a text.
Absent == [present |-> FALSE, value |-> <<>>]
Param(v) == [present |-> TRUE, value |-> v]

\* window.location.search of a page opened without a query string.
EmptyQuery ==
    [hide_offtopic |-> Absent, year_from |-> Absent, year_to |-> Absent,
     min_page_count |-> Absent, search_query |-> Absent]

\* The four batch buttons, each named by the arguments its listener passes.
BatchModes == {"all", "remaining"}
BatchActionTypes == {"classify", "verify"}
BatchButtons == [mode : BatchModes, actionType : BatchActionTypes]

\* ------------------------------------------------------------------ Init
\* The state once DOMContentLoaded has run over the table body the page was
\* served with: its last statement is applyFilters().
LoadedPage(body, data, cells, ctl) ==
    /\ rowData = data
    /\ tbody = body
    /\ cellText = cells
    /\ verifySpan = [r \in Rows |-> TRUE]
    /\ changedCell = [r \in Rows |-> "t0"]
    /\ controls = ctl
    /\ filterHidden = FilterPass(tbody, {}, ctl, data, cells, changedCell)
    /\ expanded = {}
    /\ filterTimeoutId = FALSE
    /\ taskQueue = <<>>
    /\ rafPending = FALSE
    /\ busyCursor = FALSE
    /\ currentClientSort = [column |-> "null", direction |-> "ASC"]
    /\ requests = {}
    /\ events = 0
    /\ counts = UpdateCountsFields(tbody, filterHidden, cells)
    /\ visibleCountCell = UpdateCountsVisible(tbody, filterHidden)
    /\ placeholder = [r \in Rows |-> "loading"]
    /\ detailRequests = {}
    /\ detailLog = [r \in Rows |-> 0]
    /\ isBatchRunning = FALSE
    /\ batchStatusMessage = ""
    /\ batchDisabled = [b \in BatchButtons |-> FALSE]
    /\ batchRequests = {}
    /\ url = EmptyQuery
    /\ loadRequests = {}
    /\ loadLog = <<>>
    /\ now = 0
    /\ timerSetAt = 0
    /\ LET shaded == applyAlternatingShading(tbody, filterHidden, NoShade)
       IN  shade = shaded.shade /\ raised = shaded.raised

\* The labels the buttons are rendered with.
SaveLabel == "Save Changes"
ActionTypes == {"classify", "verify"}
ActionLabel(actionType) ==
    IF actionType = "classify" THEN "Classify this paper" ELSE "Verify this paper"

\* The detail forms and per-row buttons as the server renders them; inMain
\* tells whether the .save-btn is a descendant of the main row.
LoadedForms(data, inMain) ==
    /\ saveButton = [r \in Rows |-> [disabled |-> FALSE, text |-> SaveLabel]]
    /\ formInputs = [r \in Rows |->
                        [research_area |-> <<>>, page_count |-> data[r].pages]]
    /\ saveRequests = {}
    /\ saveTimers = {}
    /\ relevanceCell = [r \in Rows |-> <<>>]
    /\ saveBtnInMainRow = inMain
    /\ actionButton = [r \in Rows |-> [a \in ActionTypes |->
                          [disabled |-> FALSE, text |-> ActionLabel(a)]]]
    /\ actionRequests = {}
    /\ highlight = [r \in Rows |-> [f \in FlashFields |-> NoHighlight]]
    /\ flashTimers = {}

\* The same for a table whose journal cells are empty: applyJournalShading
\* finds no name to count and no background to set.
LoadedBody(body, data, cells, ctl) ==
    /\ LoadedPage(body, data, cells, ctl)
    /\ journalRows = <<>>
    /\ LoadedForms(data, FALSE)

\* The page served with a well-formed table.
Loaded(data, cells, ctl) == LoadedBody(RenderedBody(NumRows), data, cells, ctl)

Init ==
    Loaded([r \in Rows |-> FixtureRow(r)], [r \in Rows |-> FixtureCells(r)],
           DefaultControls)

\* The callbacks and answers still to come: requests in flight, the debounce
\* timer, the zero-delay timers and the animation frame.
Pending ==
    Cardinality(requests) + Len(taskQueue)
    + (IF filterTimeoutId THEN 1 ELSE 0) + (IF rafPending THEN 1 ELSE 0)

\* ------------------------------------------------------------------ filter pipeline
\* An input or change event on a filter control: the control takes the value,
\* then scheduleFilterUpdate.
InputChange(name, value) ==
    /\ events < MaxEvents
    /\ filterTimeoutId \/ Pending < MaxPending
    /\ controls[name] # value
    /\ controls' = [controls EXCEPT ![name] = value]
    /\ events' = events + 1
    /\ filterTimeoutId' = TRUE
    /\ busyCursor' = TRUE
    /\ UNCHANGED <<serverVars, restVars>>
    /\ UNCHANGED <<rowData, tbody, filterHidden, expanded, cellText,
                   verifySpan, changedCell, taskQueue, rafPending,
                   currentClientSort, requests, counts, visibleCountCell>>

\* The debounce timer of scheduleFilterUpdate fires: it sets the inner
\* setTimeout(..., 0).
DebounceFires ==
    /\ filterTimeoutId
    /\ filterTimeoutId' = FALSE
    /\ taskQueue' = Append(taskQueue, [type |-> "filter", column |-> "null"])
    /\ UNCHANGED <<serverVars, restVars>>
    /\ UNCHANGED <<rowData, tbody, filterHidden, expanded, cellText,
                   verifySpan, changedCell, controls, rafPending, busyCursor,
                   currentClientSort, requests, counts, visibleCountCell,
                   events>>

\* applyFilters (ghpages.js): visibility, applyJournalShading (its body is
\* commented out), updateCounts, applyAlternatingShading, then the busy cursor
\* is removed, unless the shading threw before.
applyFilters ==
    /\ taskQueue # <<>>
    /\ Head(taskQueue).type = "filter"
    /\ taskQueue' = Tail(taskQueue)
    /\ filterHidden' =
           FilterPass(tbody, filterHidden, controls, rowData, cellText, changedCell)
    /\ counts' = UpdateCountsFields(tbody, filterHidden', cellText)
    /\ visibleCountCell' = UpdateCountsVisible(tbody, filterHidden')
    /\ LET shaded == applyAlternatingShading(tbody, filterHidden', shade)
       IN  /\ shade' = shaded.shade
           /\ raised' = shaded.raised
           /\ busyCursor' = IF shaded.raised THEN busyCursor ELSE FALSE
    /\ UNCHANGED <<journalRows, editVars>>
    /\ UNCHANGED serverVars
    /\ UNCHANGED <<rowData, tbody, expanded, cellText, verifySpan,
                   changedCell, controls, filterTimeoutId, rafPending,
                   currentClientSort, requests, events>>

\* ------------------------------------------------------------------ sort pipeline
\* A click on a th[data-sort] header: the busy cursor, and the handler body
\* deferred by setTimeout(..., 0).
HeaderClick(sortBy) ==
    /\ events < MaxEvents
    /\ Pending < MaxPending
    /\ events' = events + 1
    /\ busyCursor' = TRUE
    /\ taskQueue' = Append(taskQueue, [type |-> "sort", column |-> sortBy])
    /\ UNCHANGED <<serverVars, restVars>>
    /\ UNCHANGED <<rowData, tbody, filterHidden, expanded, cellText,
                   verifySpan, changedCell, controls, filterTimeoutId,
                   rafPending, currentClientSort, requests, counts,
                   visibleCountCell>>

\* The deferred body of the header click handler: the visible rows are sorted
\* and moved to the end of tbody with their detail rows, three animation-frame
\* callbacks are requested, the sort state is stored.
SortRows ==
    /\ taskQueue # <<>>
    /\ Head(taskQueue).type = "sort"
    /\ LET sortBy == Head(taskQueue).column
           newDirection == NewDirection(currentClientSort, sortBy)
       IN  /\ \A i \in 1..Len(tbody) :
                  (tbody[i].kind = "main" /\ tbody[i] \notin filterHidden)
                      => NextElementSibling(tbody, tbody[i]) # NoElem
           /\ tbody' = SortedBody(tbody, filterHidden, sortBy, newDirection,
                                  rowData, cellText)
           /\ currentClientSort' = [column |-> sortBy, direction |-> newDirection]
    /\ taskQueue' = Tail(taskQueue)
    /\ rafPending' = TRUE
    /\ busyCursor' = FALSE
    /\ UNCHANGED <<serverVars, restVars>>
    /\ UNCHANGED <<rowData, filterHidden, expanded, cellText, verifySpan,
                   changedCell, controls, filterTimeoutId, requests, counts,
                   visibleCountCell, events>>

\* AnimationFrame without the callback that runs applyAlternatingShading.
AnimationFrameWithoutShading ==
    /\ rafPending
    /\ rafPending' = FALSE
    /\ counts' = UpdateCountsFields(tbody, filterHidden, cellText)
    /\ visibleCountCell' = UpdateCountsVisible(tbody, filterHidden)
    /\ UNCHANGED <<serverVars, restVars>>
    /\ UNCHANGED <<rowData, tbody, filterHidden, expanded, cellText,
                   verifySpan, changedCell, controls, filterTimeoutId,
                   taskQueue, busyCursor, currentClientSort, requests,
                   events>>

\* The animation frame after a sort: applyAlternatingShading,
\* applyJournalShading and updateCounts run in the order requested.
AnimationFrame ==
    /\ rafPending
    /\ rafPending' = FALSE
    /\ counts' = UpdateCountsFields(tbody, filterHidden, cellText)
    /\ visibleCountCell' = UpdateCountsVisible(tbody, filterHidden)
    /\ LET shaded == applyAlternatingShading(tbody, filterHidden, shade)
       IN  shade' = shaded.shade /\ raised' = shaded.raised
    /\ UNCHANGED <<journalRows, editVars>>
    /\ UNCHANGED serverVars
    /\ UNCHANGED <<rowData, tbody, filterHidden, expanded, cellText,
                   verifySpan, changedCell, controls, filterTimeoutId,
                   taskQueue, busyCursor, currentClientSort, requests,
                   events>>

\* A toggle that only ever adds the class expanded.
ToggleExpandedAddOnly(exp, tb, r) ==
    LET detailRow == NextElementSibling(tb, Main(r))
    IN  IF detailRow = NoElem THEN exp ELSE exp \cup {detailRow}

\* The elements carrying class expanded after toggleDetails on main row r.
ToggleExpanded(exp, tb, r) ==
    LET detailRow == NextElementSibling(tb, Main(r))
    IN  IF detailRow = NoElem THEN exp
        ELSE IF detailRow \in exp THEN exp \ {detailRow}
        ELSE exp \cup {detailRow}

\* toggleDetails (ghpages.js) on the button of main row r.
toggleDetails(r) ==
    /\ events < MaxEvents
    /\ events' = events + 1
    /\ Main(r) \notin filterHidden
    /\ expanded' = ToggleExpanded(expanded, tbody, r)
    /\ UNCHANGED <<serverVars, restVars>>
    /\ UNCHANGED <<rowData, tbody, filterHidden, cellText, verifySpan,
                   changedCell, controls, filterTimeoutId, taskQueue,
                   rafPending, busyCursor, currentClientSort, requests,
                   counts, visibleCountCell>>

\* ------------------------------------------------------------------ quick edits
\* What sendAjaxRequest keeps for the request it issues: saveButton is null
\* unless the .save-btn is a descendant of the row passed.
Request(cell, dataToSend, currentText, row, paperId, field) ==
    [id |-> events + 1, row |-> row, field |-> field,
     currentText |-> currentText, value |-> dataToSend, paperId |-> paperId,
     saveButton |-> saveBtnInMainRow,
     wasSaveButtonDisabled |->
         IF saveBtnInMainRow THEN saveButton[row].disabled ELSE FALSE]

\* The variables a quick edit leaves alone besides the save button.
formVars == <<formInputs, saveRequests, saveTimers, relevanceCell,
              saveBtnInMainRow, actionButton, actionRequests>>

\* if (saveButton) saveButton.disabled = true
QuickSaveStarts(row) ==
    /\ saveButton' = IF saveBtnInMainRow
                     THEN [saveButton EXCEPT ![row].disabled = TRUE]
                     ELSE saveButton
    /\ UNCHANGED formVars

\* The finally of a request that restores the state captured before it.
RestoreSaveButton(q) == q.wasSaveButtonDisabled

\* .finally: if (saveButton) saveButton.disabled = wasSaveButtonDisabled
QuickSaveFinally(q) ==
    /\ saveButton' = IF q.saveButton
                     THEN [saveButton EXCEPT ![q.row].disabled = RestoreSaveButton(q)]
                     ELSE saveButton
    /\ UNCHANGED formVars

\* The flash of a clicked cell: the background is set and a timer of 300 ms
\* keeps the cell and the symbol the click wrote.  Pending timers of one cell
\* with the same symbol run the same callback and are kept as one.
Flash(r, field, nextSymbol) ==
    /\ highlight' = [highlight EXCEPT ![r][field] = FlashColor]
    /\ flashTimers' = flashTimers \cup
           {[row |-> r, field |-> field, nextSymbol |-> nextSymbol]}

\* The test of the timer callback: the cell still shows the symbol of its
\* click (for the verified-by cell: in a span).
ShowsSymbol(t, cells, spans) ==
    /\ cells[t.row][t.field] = t.nextSymbol
    /\ t.field = "verified_by" => spans[t.row]

\* The click handler for .editable-status, on the is_offtopic cell of row r.
\* An unrecognized text takes the branch that cycles from STATUS_CYCLE of unknown.
ClickStatus(r) ==
    /\ events < MaxEvents
    /\ Pending < MaxPending
    /\ Main(r) \notin filterHidden
    /\ LET field == "is_offtopic"
           currentText == cellText[r][field]
           nextStatusInfo ==
               IF currentText \in DOMAIN STATUS_CYCLE
               THEN STATUS_CYCLE[currentText] ELSE STATUS_CYCLE["unk"]
       IN  /\ cellText' = [cellText EXCEPT ![r][field] = nextStatusInfo.next]
           /\ IF currentText \in DOMAIN STATUS_CYCLE
              THEN Flash(r, field, nextStatusInfo.next)
              ELSE UNCHANGED flashVars
           /\ requests' = requests \cup
                  {Request(<<r, field>>, nextStatusInfo.value, currentText, r,
                           PaperId(r), field)}
    /\ events' = events + 1
    /\ UNCHANGED <<serverVars, shadeVars>>
    /\ QuickSaveStarts(r)
    /\ UNCHANGED <<rowData, tbody, filterHidden, expanded, verifySpan,
                   changedCell, controls, filterTimeoutId, taskQueue,
                   rafPending, busyCursor, currentClientSort, counts,
                   visibleCountCell>>

\* The click handler for .editable-verify, on the verified_by cell of row r.
\* It returns at once when the cell holds no span or the symbol is not in
\* VERIFIED_BY_CYCLE.
ClickVerify(r) ==
    /\ events < MaxEvents
    /\ Pending < MaxPending
    /\ Main(r) \notin filterHidden
    /\ verifySpan[r]
    /\ cellText[r]["verified_by"] \in DOMAIN VERIFIED_BY_CYCLE
    /\ LET field == "verified_by"
           currentSymbol == cellText[r][field]
           nextStatusInfo == VERIFIED_BY_CYCLE[currentSymbol]
           nextValue == nextStatusInfo.value
       IN  /\ cellText' = [cellText EXCEPT
                  ![r][field] = IF nextValue = "user" THEN "user" ELSE "unk"]
           /\ Flash(r, field, nextStatusInfo.next)
           /\ requests' = requests \cup
                  {Request(<<r, field>>,
                           IF nextValue = "unknown" THEN "null" ELSE nextValue,
                           currentSymbol, r, PaperId(r), field)}
    /\ events' = events + 1
    /\ UNCHANGED <<serverVars, shadeVars>>
    /\ QuickSaveStarts(r)
    /\ UNCHANGED <<rowData, tbody, filterHidden, expanded, verifySpan,
                   changedCell, controls, filterTimeoutId, taskQueue,
                   rafPending, busyCursor, currentClientSort, counts,
                   visibleCountCell>>

\* The answers of /update_paper with status success the model draws from: the
\* audit fields are present (an absent field would read "undefined").
SuccessData == {[changed_formatted |-> "t1", changed_by |-> "user"]}

\* sendAjaxRequest, the branch data.status === 'success': the audit cells of
\* the row are patched, then updateCounts.
AjaxSuccess(q, data) ==
    /\ q \in requests
    /\ requests' = requests \ {q}
    /\ changedCell' =
           IF data.changed_formatted # "undefined"
           THEN [changedCell EXCEPT ![q.row] = data.changed_formatted]
           ELSE changedCell
    /\ cellText' =
           IF data.changed_by # "undefined"
           THEN [cellText EXCEPT ![q.row]["changed_by"] = renderChangedBy(data.changed_by)]
           ELSE cellText
    /\ counts' = UpdateCountsFields(tbody, filterHidden, cellText')
    /\ visibleCountCell' = UpdateCountsVisible(tbody, filterHidden)
    /\ UNCHANGED <<serverVars, shadeVars, flashVars>>
    /\ QuickSaveFinally(q)
    /\ UNCHANGED <<rowData, tbody, filterHidden, expanded, verifySpan,
                   controls, filterTimeoutId, taskQueue, rafPending,
                   busyCursor, currentClientSort, events>>

\* How a request fails: the fetch rejects, the HTTP status is not OK, or the
\* answer carries a status other than success.
FailureKinds == {"network", "http", "status"}

\* RevertText leaving the glyph the click wrote.
RevertTextKeepsEdit(q) == cellText[q.row][q.field]

\* The text a failed request leaves in its cell.
RevertText(q) == q.currentText

\* sendAjaxRequest, the else branch and the catch: cell.textContent = currentText.
\* Setting textContent removes the span of a .editable-verify cell.
AjaxFailure(q, kind) ==
    /\ q \in requests
    /\ kind \in FailureKinds
    /\ requests' = requests \ {q}
    /\ cellText' = [cellText EXCEPT ![q.row][q.field] = RevertText(q)]
    /\ verifySpan' =
           IF q.field = "verified_by" THEN [verifySpan EXCEPT ![q.row] = FALSE]
           ELSE verifySpan
    /\ UNCHANGED <<serverVars, shadeVars, flashVars>>
    /\ QuickSaveFinally(q)
    /\ UNCHANGED <<rowData, tbody, filterHidden, expanded, changedCell,
                   controls, filterTimeoutId, taskQueue, rafPending,
                   busyCursor, currentClientSort, counts, visibleCountCell,
                   events>>

\* The callback of setTimeout(..., 300) of a click: the background is reset
\* if the cell still shows the symbol the click wrote.
FlashTimerFires(t) ==
    /\ t \in flashTimers
    /\ flashTimers' = flashTimers \ {t}
    /\ highlight' = IF ShowsSymbol(t, cellText, verifySpan)
                    THEN [highlight EXCEPT ![t.row][t.field] = NoHighlight]
                    ELSE highlight
    /\ UNCHANGED <<saveButton, formVars>>
    /\ UNCHANGED <<pageVars, serverVars, shadeVars>>

\* ------------------------------------------------------------------ detail rows
\* The requests the server-backed page has in flight.
ServerPending ==
    Cardinality(detailRequests) + Cardinality(loadRequests)
    + Cardinality(batchRequests)

\* A test that takes the error message for content not loaded.
ContentNotLoadedOrError(content) == content \in {"loading", "error"}

\* The test of toggleDetails that the content is not loaded yet: the
\* placeholder has no child, or its only child is the loading message.
ContentNotLoaded(content) == content = "loading"

\* toggleDetails (filtering.js) on the button of main row r: the detail row is
\* collapsed or expanded, and on an expansion with content not loaded yet
\* /get_detail_row is fetched.
toggleDetails_filtering(r) ==
    /\ events < MaxEvents
    /\ events' = events + 1
    /\ Main(r) \in Elems(tbody)
    /\ LET detailRow == NextElementSibling(tbody, Main(r))
           isExpanded == detailRow # NoElem /\ detailRow \in expanded
           fetches == /\ ~isExpanded
                      /\ detailRow # NoElem
                      /\ ContentNotLoaded(placeholder[detailRow.row])
       IN  /\ expanded' =
                  IF isExpanded THEN expanded \ {detailRow}
                  ELSE IF detailRow # NoElem THEN expanded \cup {detailRow}
                  ELSE expanded
           /\ fetches => ServerPending < MaxPending
           /\ detailRequests' =
                  IF fetches
                  THEN detailRequests \cup
                           {[id |-> events + 1, row |-> r, attached |-> TRUE]}
                  ELSE detailRequests
           /\ detailLog' =
                  IF fetches THEN [detailLog EXCEPT ![r] = @ + 1] ELSE detailLog
    /\ UNCHANGED <<placeholder, isBatchRunning, batchStatusMessage, batchDisabled, batchRequests,
                   url, loadRequests, loadLog, now, timerSetAt>>
    /\ UNCHANGED <<rowData, tbody, filterHidden, cellText, verifySpan,
                   changedCell, controls, filterTimeoutId, taskQueue,
                   rafPending, busyCursor, currentClientSort, requests,
                   counts, visibleCountCell>>
    /\ UNCHANGED restVars

\* What a /get_detail_row answer writes into the placeholder its request
\* holds: the fragment, or an error message.  A placeholder detached by a
\* reload of the table body is written too, and shows nowhere.
DetailAnswer(q, content) ==
    /\ q \in detailRequests
    /\ detailRequests' = detailRequests \ {q}
    /\ placeholder' =
           IF q.attached THEN [placeholder EXCEPT ![q.row] = content]
           ELSE placeholder
    /\ UNCHANGED <<detailLog, isBatchRunning, batchStatusMessage, batchDisabled, batchRequests,
                   url, loadRequests, loadLog, now, timerSetAt>>
    /\ UNCHANGED pageVars
    /\ UNCHANGED restVars

\* The answer {status: 'success', html}.
DetailSuccess(q) == DetailAnswer(q, "loaded")

\* An answer with another status or without html, or a failed fetch.
DetailFailureKinds == {"status", "network"}

DetailFailure(q, kind) ==
    /\ kind \in DetailFailureKinds
    /\ DetailAnswer(q, "error")

\* ------------------------------------------------------------------ server-side filters
\* NumberParam without the parseInt test.
NumberParamUnparsed(text) ==
    LET v == Trim(text)
    IN  IF v # <<>> THEN Param(v) ELSE Absent

\* The query parameters applyServerSideFilters builds from the controls.
NumberParam(text) ==
    LET v == Trim(text)
    IN  IF v # <<>> /\ ~ParseInt(v).nan THEN Param(v) ELSE Absent

UrlParams(ctl) ==
    [hide_offtopic |-> Param(IF ctl.hideOfftopic THEN <<"1">> ELSE <<"0">>),
     year_from |-> NumberParam(ctl.yearFrom),
     year_to |-> NumberParam(ctl.yearTo),
     min_page_count |-> NumberParam(ctl.minPages),
     search_query |->
         IF Trim(ctl.search) # <<>> THEN Param(Trim(ctl.search)) ELSE Absent]

\* The controls a page would show for the query parameters.
ControlsOf(params) ==
    [search |-> params.search_query.value,
     hideOfftopic |-> params.hide_offtopic.value = <<"1">>,
     minPages |-> params.min_page_count.value,
     yearFrom |-> params.year_from.value,
     yearTo |-> params.year_to.value]

\* GET /load_table: the rows the backend renders for the query parameters.
LoadTable(params) ==
    {r \in Rows :
        ShowRow(RenderedBody(NumRows), Main(r), ControlsOf(params), rowData,
                cellText, changedCell)}

\* The table body rendered from the rows keep, each with its detail row.
RenderedRows(keep) ==
    SelectSeqBy(RenderedBody(NumRows),
                {e \in Elems(RenderedBody(NumRows)) : e.row \in keep})

\* applyServerSideFilters up to the fetch: the busy cursor, the parameters,
\* the request.
applyServerSideFilters(ctl) ==
    /\ busyCursor' = TRUE
    /\ loadLog' = Append(loadLog, UrlParams(ctl))
    /\ loadRequests' =
           loadRequests \cup
               {[id |-> Len(loadLog) + 1, params |-> UrlParams(ctl)]}

\* A change of the hide-offtopic checkbox: applyServerSideFilters at once.
HideOfftopicChange ==
    /\ events < MaxEvents
    /\ ServerPending < MaxPending
    /\ events' = events + 1
    /\ controls' = [controls EXCEPT !.hideOfftopic = ~@]
    /\ applyServerSideFilters(controls')
    /\ UNCHANGED <<placeholder, detailRequests, detailLog, isBatchRunning,
                   batchStatusMessage, batchDisabled, batchRequests, url, now, timerSetAt>>
    /\ UNCHANGED <<rowData, tbody, filterHidden, expanded, cellText,
                   verifySpan, changedCell, filterTimeoutId, taskQueue,
                   rafPending, currentClientSort, requests, counts,
                   visibleCountCell>>
    /\ UNCHANGED restVars

\* A response handler that builds the new URL from the controls as they are
\* when the answer arrives, not from the parameters its own call captured.
LoadTableSuccessUrlFromControls(q) ==
    /\ q \in loadRequests
    /\ loadRequests' = loadRequests \ {q}
    /\ tbody' = RenderedRows(LoadTable(q.params))
    /\ filterHidden' = {}
    /\ expanded' = {}
    /\ verifySpan' = [r \in Rows |-> TRUE]
    /\ placeholder' = [r \in Rows |-> "loading"]
    /\ detailRequests' = {[d EXCEPT !.attached = FALSE] : d \in detailRequests}
    /\ url' = UrlParams(controls)
    /\ counts' = UpdateCountsFields(tbody', filterHidden', cellText)
    /\ visibleCountCell' = UpdateCountsVisible(tbody', filterHidden')
    /\ shade' = applyAlternatingShading(tbody', filterHidden', NoShade).shade
    /\ busyCursor' = FALSE
    /\ UNCHANGED <<detailLog, isBatchRunning, batchStatusMessage, batchDisabled, batchRequests,
                   loadLog, now, timerSetAt, raised, journalRows>>
    /\ UNCHANGED editVars
    /\ UNCHANGED <<rowData, cellText, changedCell, controls, filterTimeoutId,
                   taskQueue, rafPending, currentClientSort, requests, events>>

\* The /load_table answer arrives: tbody.innerHTML = html replaces every row
\* by a fresh one, history.replaceState stores the parameters of this request,
\* then applyFilters of filtering.js (shading and counts).
LoadTableSuccess(q) ==
    /\ q \in loadRequests
    /\ loadRequests' = loadRequests \ {q}
    /\ tbody' = RenderedRows(LoadTable(q.params))
    /\ filterHidden' = {}
    /\ expanded' = {}
    /\ verifySpan' = [r \in Rows |-> TRUE]
    /\ placeholder' = [r \in Rows |-> "loading"]
    /\ detailRequests' = {[d EXCEPT !.attached = FALSE] : d \in detailRequests}
    /\ url' = q.params
    /\ counts' = UpdateCountsFields(tbody', filterHidden', cellText)
    /\ visibleCountCell' = UpdateCountsVisible(tbody', filterHidden')
    /\ shade' = applyAlternatingShading(tbody', filterHidden', NoShade).shade
    /\ busyCursor' = FALSE
    /\ UNCHANGED <<detailLog, isBatchRunning, batchStatusMessage, batchDisabled, batchRequests,
                   loadLog, now, timerSetAt, raised, journalRows>>
    /\ UNCHANGED editVars
    /\ UNCHANGED <<rowData, cellText, changedCell, controls, filterTimeoutId,
                   taskQueue, rafPending, currentClientSort, requests, events>>

\* The /load_table request fails (response not OK, or the fetch rejects):
\* only the busy cursor is removed.
LoadTableFailure(q) ==
    /\ q \in loadRequests
    /\ loadRequests' = loadRequests \ {q}
    /\ busyCursor' = FALSE
    /\ UNCHANGED <<placeholder, detailRequests, detailLog, isBatchRunning,
                   batchStatusMessage, batchDisabled, batchRequests, url, loadLog, now, timerSetAt>>
    /\ UNCHANGED <<rowData, tbody, filterHidden, expanded, cellText,
                   verifySpan, changedCell, controls, filterTimeoutId,
                   taskQueue, rafPending, currentClientSort, requests, events,
                   counts, visibleCountCell>>
    /\ UNCHANGED restVars

\* ------------------------------------------------------------------ batch actions
\* runBatchAction without the test of isBatchRunning.
runBatchActionUnguarded(mode, actionType, confirmed) ==
    /\ events < MaxEvents
    /\ events' = events + 1
    /\ IF ~confirmed
       THEN UNCHANGED <<isBatchRunning, batchStatusMessage, batchDisabled, batchRequests>>
       ELSE /\ ServerPending < MaxPending
            /\ isBatchRunning' = TRUE
            /\ batchDisabled' = [b \in BatchButtons |-> TRUE]
            /\ batchStatusMessage' = "Starting"
            /\ batchRequests' =
                   batchRequests \cup
                       {[id |-> events + 1, mode |-> mode,
                         actionType |-> actionType]}
    /\ UNCHANGED <<placeholder, detailRequests, detailLog, url, loadRequests,
                   loadLog, now, timerSetAt>>
    /\ UNCHANGED <<rowData, tbody, filterHidden, expanded, cellText,
                   verifySpan, changedCell, controls, filterTimeoutId,
                   taskQueue, rafPending, busyCursor, currentClientSort,
                   requests, counts, visibleCountCell>>
    /\ UNCHANGED restVars

\* runBatchAction(mode, actionType); confirmed is the answer to confirm().  A
\* call while isBatchRunning alerts and returns; so does a call the user does
\* not confirm.  Otherwise the flag is set, the four buttons are disabled and
\* the start request is sent.
runBatchAction(mode, actionType, confirmed) ==
    /\ events < MaxEvents
    /\ events' = events + 1
    /\ IF isBatchRunning \/ ~confirmed
       THEN UNCHANGED <<isBatchRunning, batchStatusMessage, batchDisabled, batchRequests>>
       ELSE /\ ServerPending < MaxPending
            /\ isBatchRunning' = TRUE
            /\ batchDisabled' = [b \in BatchButtons |-> TRUE]
            /\ batchStatusMessage' = "Starting"
            /\ batchRequests' =
                   batchRequests \cup
                       {[id |-> events + 1, mode |-> mode,
                         actionType |-> actionType]}
    /\ UNCHANGED <<placeholder, detailRequests, detailLog, url, loadRequests,
                   loadLog, now, timerSetAt>>
    /\ UNCHANGED <<rowData, tbody, filterHidden, expanded, cellText,
                   verifySpan, changedCell, controls, filterTimeoutId,
                   taskQueue, rafPending, busyCursor, currentClientSort,
                   requests, counts, visibleCountCell>>
    /\ UNCHANGED restVars

\* BatchStarted with the commented-out timer taken as having run: the flag
\* cleared and the buttons enabled.
BatchStartedReenabling(q) ==
    /\ q \in batchRequests
    /\ batchRequests' = batchRequests \ {q}
    /\ isBatchRunning' = FALSE
    /\ batchDisabled' = [b \in BatchButtons |-> FALSE]
    /\ batchStatusMessage' = "started"
    /\ UNCHANGED <<placeholder, detailRequests, detailLog, url, loadRequests,
                   loadLog, now, timerSetAt>>
    /\ UNCHANGED pageVars
    /\ UNCHANGED restVars

\* The answer {status: 'started'}: the message is shown; the flag and the
\* buttons stay as they are.
BatchStarted(q) ==
    /\ q \in batchRequests
    /\ batchRequests' = batchRequests \ {q}
    /\ batchStatusMessage' = "started"
    /\ UNCHANGED <<placeholder, detailRequests, detailLog, isBatchRunning,
                   batchDisabled, url, loadRequests, loadLog, now, timerSetAt>>
    /\ UNCHANGED pageVars
    /\ UNCHANGED restVars

\* An answer with another status, a response that is not OK, or a failed fetch.
BatchFailureKinds == {"unexpected", "http", "network"}

\* BatchFailure clearing the flag and leaving the buttons disabled.
BatchFailureKeepsDisabled(q, kind) ==
    /\ q \in batchRequests
    /\ kind \in BatchFailureKinds
    /\ batchRequests' = batchRequests \ {q}
    /\ isBatchRunning' = FALSE
    /\ batchStatusMessage' = IF kind = "unexpected" THEN "Error initiating" ELSE ""
    /\ UNCHANGED <<placeholder, detailRequests, detailLog, batchDisabled, url,
                   loadRequests, loadLog, now, timerSetAt>>
    /\ UNCHANGED pageVars
    /\ UNCHANGED restVars

\* The start request fails: the flag is cleared and the buttons are enabled.
BatchFailure(q, kind) ==
    /\ q \in batchRequests
    /\ kind \in BatchFailureKinds
    /\ batchRequests' = batchRequests \ {q}
    /\ isBatchRunning' = FALSE
    /\ batchDisabled' = [b \in BatchButtons |-> FALSE]
    /\ batchStatusMessage' = IF kind = "unexpected" THEN "Error initiating" ELSE ""
    /\ UNCHANGED <<placeholder, detailRequests, detailLog, url, loadRequests,
                   loadLog, now, timerSetAt>>
    /\ UNCHANGED pageVars
    /\ UNCHANGED restVars

\* ------------------------------------------------------------------ debounced search
FILTER_DEBOUNCE_DELAY == 200

\* The steps by which the clock of the model advances, in ms.
TickSteps == {50, 200}

\* TimerDue for a timer that runs its callback with no delay.
TimerDueAtOnce(setAt) == setAt

\* setTimeout(..., FILTER_DEBOUNCE_DELAY) called at setAt: the earliest time
\* the callback runs.
TimerDue(setAt) == setAt + FILTER_DEBOUNCE_DELAY

\* Time passes.
Tick(d) ==
    /\ now + d <= MaxTime
    /\ now' = now + d
    /\ UNCHANGED <<placeholder, detailRequests, detailLog, isBatchRunning,
                   batchStatusMessage, batchDisabled, batchRequests, url, loadRequests, loadLog,
                   timerSetAt>>
    /\ UNCHANGED pageVars
    /\ UNCHANGED restVars

\* The input listener of #search-input (filtering.js): clearTimeout of the
\* pending timer, then a new timer.
SearchInput(value) ==
    /\ events < MaxEvents
    /\ TimerDue(now) <= MaxTime
    /\ controls.search # value
    /\ events' = events + 1
    /\ controls' = [controls EXCEPT !.search = value]
    /\ filterTimeoutId' = TRUE
    /\ timerSetAt' = now
    /\ UNCHANGED <<placeholder, detailRequests, detailLog, isBatchRunning,
                   batchStatusMessage, batchDisabled, batchRequests, url, loadRequests, loadLog,
                   now>>
    /\ UNCHANGED <<rowData, tbody, filterHidden, expanded, cellText,
                   verifySpan, changedCell, taskQueue, rafPending, busyCursor,
                   currentClientSort, requests, counts, visibleCountCell>>
    /\ UNCHANGED restVars

\* The callback of the debounce timer: applyServerSideFilters.
SearchDebounceFires ==
    /\ filterTimeoutId
    /\ now >= TimerDue(timerSetAt)
    /\ filterTimeoutId' = FALSE
    /\ applyServerSideFilters(controls)
    /\ UNCHANGED <<placeholder, detailRequests, detailLog, isBatchRunning,
                   batchStatusMessage, batchDisabled, batchRequests, url, now, timerSetAt>>
    /\ UNCHANGED <<rowData, tbody, filterHidden, expanded, cellText,
                   verifySpan, changedCell, controls, taskQueue, rafPending,
                   currentClientSort, requests, events, counts,
                   visibleCountCell>>
    /\ UNCHANGED restVars

\* The search box of the server-backed page under a clock: timers run their
\* callbacks once due, and time does not stop.
NextDebounce ==
    \/ \E value \in SearchInputs : SearchInput(value)
    \/ \E d \in TickSteps : Tick(d)
    \/ SearchDebounceFires
    \/ \E q \in loadRequests : LoadTableSuccess(q)
    \/ \E q \in loadRequests : LoadTableFailure(q)

SpecDebounce ==
    /\ Init
    /\ [][NextDebounce]_vars
    /\ WF_vars(\E d \in TickSteps : Tick(d))
    /\ WF_vars(SearchDebounceFires)

\* ------------------------------------------------------------------ SpecServer
\* The server-backed page: lazy detail rows, server-side filters on the
\* hide-offtopic checkbox, batch actions.
NextServer ==
    \/ \E r \in Rows : toggleDetails_filtering(r)
    \/ \E q \in detailRequests : DetailSuccess(q)
    \/ \E q \in detailRequests : \E kind \in DetailFailureKinds :
           DetailFailure(q, kind)
    \/ HideOfftopicChange
    \/ \E q \in loadRequests : LoadTableSuccess(q)
    \/ \E q \in loadRequests : LoadTableFailure(q)
    \/ \E b \in BatchButtons : \E confirmed \in BOOLEAN :
           runBatchAction(b.mode, b.actionType, confirmed)
    \/ \E q \in batchRequests : BatchStarted(q)
    \/ \E q \in batchRequests : \E kind \in BatchFailureKinds :
           BatchFailure(q, kind)

SpecServer == Init /\ [][NextServer]_vars

\* ------------------------------------------------------------------ SpecFilter
\* The filter pipeline alone, over tables whose first row is loaded with any of
\* these years, page counts and off-topic glyphs.
RowYears == {<<>>, <<"2", "0", "1", "9">>, <<"2", "0", "2", "0">>,
             <<"2", "0", "2", "1">>}
RowPages == {<<>>, <<"3">>, <<"5">>, <<"1", "2">>}
RowOfftopic == {"yes", "no"}

InitFilter ==
    \E y \in RowYears : \E p \in RowPages : \E o \in RowOfftopic :
        Loaded([r \in Rows |->
                   IF r = 1 THEN [FixtureRow(1) EXCEPT !.year = y, !.pages = p]
                   ELSE FixtureRow(r)],
               [r \in Rows |->
                   IF r = 1 THEN [FixtureCells(1) EXCEPT !.is_offtopic = o]
                   ELSE FixtureCells(r)],
               DefaultControls)

NextFilter ==
    \/ \E name \in ControlNames : \E value \in ControlValues(name) :
           InputChange(name, value)
    \/ DebounceFires
    \/ applyFilters

SpecFilter == InitFilter /\ [][NextFilter]_vars

\* ------------------------------------------------------------------ SpecYear
\* The year range alone: the first row is loaded with a year, no year or a
\* text that is no number, and only the two year boxes are typed into.
RowYearTexts == RowYears \cup {<<"n", "a">>}
YearBoundInputs == YearInputs \cup {<<"0">>, <<"2", "0", "2", "1">>}

InitYear ==
    \E y \in RowYearTexts :
        Loaded([r \in Rows |->
                   IF r = 1 THEN [FixtureRow(1) EXCEPT !.year = y]
                   ELSE FixtureRow(r)],
               [r \in Rows |-> FixtureCells(r)], DefaultControls)

NextYear ==
    \/ \E name \in {"yearFrom", "yearTo"} : \E value \in YearBoundInputs :
           InputChange(name, value)
    \/ DebounceFires
    \/ applyFilters

SpecYear == InitYear /\ [][NextYear]_vars

\* ------------------------------------------------------------------ SpecPages
\* The minimum page count alone: the first row is loaded with a page count,
\* none or a text that is no number, and only the min-page-count box is typed
\* into.
RowPageTexts == RowPages \cup {<<"x">>}
PageBoundInputs == PageInputs \cup {<<"0">>, <<"1", "2">>, <<"4">>}

InitPages ==
    \E p \in RowPageTexts :
        Loaded([r \in Rows |->
                   IF r = 1 THEN [FixtureRow(1) EXCEPT !.pages = p]
                   ELSE FixtureRow(r)],
               [r \in Rows |-> FixtureCells(r)], DefaultControls)

NextPages ==
    \/ \E value \in PageBoundInputs : InputChange("minPages", value)
    \/ DebounceFires
    \/ applyFilters

SpecPages == InitPages /\ [][NextPages]_vars

\* ------------------------------------------------------------------ SpecSearch
\* The search box alone: the detail row of the first row is loaded with or
\* without text outside its traces, and with either of two trace texts.
RowDetailTexts == {<<>>, <<"c", "a", "p">>}
RowTraceTexts == {<<"x">>, <<"C", "a">>}
SearchTexts == SearchInputs \cup {<<"p", "C">>, <<" ">>}

InitSearch ==
    \E d \in RowDetailTexts : \E t \in RowTraceTexts :
        Loaded([r \in Rows |->
                   IF r = 1 THEN [FixtureRow(1) EXCEPT !.detail = d, !.trace = t]
                   ELSE FixtureRow(r)],
               [r \in Rows |-> FixtureCells(r)], DefaultControls)

NextSearch ==
    \/ \E value \in SearchTexts : InputChange("search", value)
    \/ DebounceFires
    \/ applyFilters

SpecSearch == InitSearch /\ [][NextSearch]_vars

\* ------------------------------------------------------------------ SpecMalformed
\* The filter pipeline over tables whose last row lacks its cells from the
\* year on or from the page count on, or its off-topic cell, and whose first
\* or last row lacks its detail row.
MalformedCellCounts == {YearCellIndex, PagesCellIndex, PagesCellIndex + 1}
MalformedOfftopicCells == {NoCell, "yes"}
MissingDetailRows == SUBSET {1, NumRows}

\* The rendered table body without the detail rows of the rows in missing.
BodyWithout(missing) ==
    SelectSeqBy(RenderedBody(NumRows),
                AllElems \ {Detail(r) : r \in missing})

InitMalformed ==
    \E n \in MalformedCellCounts : \E o \in MalformedOfftopicCells :
    \E missing \in MissingDetailRows :
        LoadedBody(BodyWithout(missing),
                   [r \in Rows |->
                       IF r = NumRows
                       THEN [FixtureRow(r) EXCEPT !.cellCount = n]
                       ELSE FixtureRow(r)],
                   [r \in Rows |->
                       IF r = NumRows
                       THEN [FixtureCells(r) EXCEPT !.is_offtopic = o]
                       ELSE FixtureCells(r)],
                   DefaultControls)

NextMalformed ==
    \/ \E name \in ControlNames : \E value \in ControlValues(name) :
           InputChange(name, value)
    \/ DebounceFires
    \/ applyFilters

SpecMalformed == InitMalformed /\ [][NextMalformed]_vars

\* ------------------------------------------------------------------ SpecCursor
\* The filter pipeline of the static page with the timers of the browser, over
\* tables whose first or last row lacks its detail row: a debounce timer that
\* is set and not cleared runs its callback, and so does a zero-delay timer.
InitCursor ==
    \E missing \in MissingDetailRows :
        LoadedBody(BodyWithout(missing), [r \in Rows |-> FixtureRow(r)],
                   [r \in Rows |-> FixtureCells(r)], DefaultControls)

NextCursor ==
    \/ \E name \in TouchedControls : \E value \in ControlValues(name) :
           InputChange(name, value)
    \/ DebounceFires
    \/ applyFilters

SpecCursor ==
    /\ InitCursor
    /\ [][NextCursor]_vars
    /\ WF_vars(DebounceFires)
    /\ WF_vars(applyFilters)

\* ------------------------------------------------------------------ SpecSort
\* The sort alone, over tables whose first row is loaded with any of these
\* page counts, years and off-topic glyphs and whose last row has a page count
\* or none; the headers clicked are two numeric columns and a status column.
SortKeyColumns == {"year", "page_count", "is_offtopic"}
SortedRowYears == {<<"2", "0", "1", "9">>, <<"2", "0", "2", "1">>}
SortedRowGlyphs == {"yes", "no", "unk"}
LastRowPages == {<<>>, <<"5">>}

InitSort ==
    \E p \in RowPages : \E y \in SortedRowYears : \E g \in SortedRowGlyphs :
    \E q \in LastRowPages :
        Loaded([r \in Rows |->
                   IF r = 1 THEN [FixtureRow(1) EXCEPT !.pages = p, !.year = y]
                   ELSE IF r = NumRows THEN [FixtureRow(r) EXCEPT !.pages = q]
                   ELSE FixtureRow(r)],
               [r \in Rows |->
                   IF r = 1 THEN [FixtureCells(1) EXCEPT !.is_offtopic = g]
                   ELSE FixtureCells(r)],
               DefaultControls)

NextSort ==
    \/ \E sortBy \in SortKeyColumns : HeaderClick(sortBy)
    \/ SortRows
    \/ AnimationFrame

SpecSort == InitSort /\ [][NextSort]_vars

\* ------------------------------------------------------------------ SpecSortFrames
\* Sorts and filter passes of the page, the browser running every animation
\* frame callback it was asked for.
NextSortFrames ==
    \/ \E name \in TouchedControls : \E value \in ControlValues(name) :
           InputChange(name, value)
    \/ DebounceFires
    \/ applyFilters
    \/ \E sortBy \in SortColumns : HeaderClick(sortBy)
    \/ SortRows
    \/ AnimationFrame

SpecSortFrames ==
    /\ Init
    /\ [][NextSortFrames]_vars
    /\ WF_vars(AnimationFrame)


\* ------------------------------------------------------------------ journal shading
\* applyJournalShading(rows) of filtering.js.  A lightness is a real number:
\* it is kept exact as a fraction num/den with den > 0.
JournalRowCount == 5
JournalRowIds == 1..JournalRowCount
JournalNames == {<<>>, <<"A">>, <<"B">>}

minLightness == 97
maxLightness == 80

NoBackground == [num |-> 0, den |-> 0]
Whole(n) == [num |-> n, den |-> 1]
FracLeq(a, b) == a.num * b.den <= b.num * a.den
FracMin(a, b) == IF FracLeq(b, a) THEN b ELSE a
FracMax(a, b) == IF FracLeq(a, b) THEN b ELSE a

\* journalCounts.get(name) || 0 after the first loop over the rows passed.
JournalCount(cells, passed, name) ==
    Cardinality({i \in passed : /\ ~cells[i].hidden
                                /\ Trim(cells[i].name) # <<>>
                                /\ Trim(cells[i].name) = name})

\* maxCount after the loop over journalCounts.values().
JournalMaxCount(cells, passed) ==
    LET cs == {JournalCount(cells, passed, Trim(cells[i].name)) : i \in passed}
               \cup {0}
    IN  CHOOSE m \in cs : \A c \in cs : c <= m

\* The lightness of a name seen count times.
JournalLightness(count, maxCount) ==
    IF maxCount <= 1 THEN Whole(minLightness)
    ELSE LET l == [num |-> maxLightness * (maxCount - 1)
                           + (minLightness - maxLightness)
                             * ((maxCount - 1) - (count - 1)),
                   den |-> maxCount - 1]
         IN  FracMax(Whole(maxLightness), FracMin(Whole(minLightness), l))

\* applyJournalShading without `journalCell.style.backgroundColor = ''`.
applyJournalShadingKeepingBackground(cells, passed) ==
    LET shaded == [i \in DOMAIN cells |->
                      LET journalName == Trim(cells[i].name)
                          count == JournalCount(cells, passed, journalName)
                      IN  IF i \in passed /\ ~cells[i].hidden
                             /\ journalName # <<>> /\ count > 1
                          THEN [cells[i] EXCEPT !.bg =
                                   JournalLightness(count,
                                       JournalMaxCount(cells, passed))]
                          ELSE cells[i]]
    IN  shaded

\* The second loop: the background of every row passed is cleared, and set
\* again where the row is visible and its name was counted more than once.
applyJournalShading(cells, passed) ==
    LET maxCount == JournalMaxCount(cells, passed)
        background(i) ==
            LET journalName == Trim(cells[i].name)
                count == JournalCount(cells, passed, journalName)
            IN  IF ~cells[i].hidden /\ journalName # <<>> /\ count > 1
                THEN JournalLightness(count, maxCount)
                ELSE NoBackground
    IN  [i \in DOMAIN cells |->
            IF i \in passed THEN [cells[i] EXCEPT !.bg = background(i)]
            ELSE cells[i]]

\* The rows the callers select: tr[data-paper-id]:not(.filter-hidden).
VisibleJournalRows(cells) == {i \in DOMAIN cells : ~cells[i].hidden}

\* applyFilters of filtering.js, on a table with journal names.
JournalShadingPass ==
    /\ journalRows # <<>>
    /\ journalRows' =
           applyJournalShading(journalRows, VisibleJournalRows(journalRows))
    /\ counts' = UpdateCountsFields(tbody, filterHidden, cellText)
    /\ visibleCountCell' = UpdateCountsVisible(tbody, filterHidden)
    /\ LET shaded == applyAlternatingShading(tbody, filterHidden, shade)
       IN  shade' = shaded.shade /\ raised' = shaded.raised
    /\ busyCursor' = FALSE
    /\ UNCHANGED <<serverVars, editVars>>
    /\ UNCHANGED <<rowData, tbody, filterHidden, expanded, cellText,
                   verifySpan, changedCell, controls, filterTimeoutId,
                   taskQueue, rafPending, currentClientSort, requests,
                   events>>

\* Tables of JournalRowCount rows: every row has a journal name or none, is
\* visible or hidden, and the cells either all carry the darkest background
\* of an earlier pass or none.
InitJournal ==
    /\ LoadedPage(RenderedBody(NumRows), [r \in Rows |-> FixtureRow(r)],
                  [r \in Rows |-> FixtureCells(r)], DefaultControls)
    /\ LoadedForms([r \in Rows |-> FixtureRow(r)], FALSE)
    /\ \E names \in [JournalRowIds -> JournalNames],
          hid \in SUBSET JournalRowIds,
          left \in {NoBackground, Whole(maxLightness)} :
          journalRows = [i \in JournalRowIds |->
                            [name |-> names[i], hidden |-> i \in hid,
                             bg |-> left]]

NextJournal == JournalShadingPass

SpecJournal == InitJournal /\ [][NextJournal]_vars


\* ------------------------------------------------------------------ full-form save
\* The variables saveChanges and its callbacks leave alone.
saveLeaves == <<journalRows, saveBtnInMainRow, actionButton, actionRequests,
               highlight, flashTimers>>

\* What the user types into input[name="page_count"] of a form.
PageCountInputs == {<<>>, <<"7">>, <<"x">>}

\* The form of row r is in the document and shown: it is part of the main
\* row, or the detail content has been loaded and the detail row is expanded.
FormShown(r) ==
    saveBtnInMainRow \/ (placeholder[r] = "loaded" /\ Detail(r) \in expanded)

\* The user edits the page count input of the form of row r.
FormInput(r, value) ==
    /\ events < MaxEvents
    /\ events' = events + 1
    /\ FormShown(r)
    /\ formInputs[r].page_count # value
    /\ formInputs' = [formInputs EXCEPT ![r].page_count = value]
    /\ UNCHANGED <<saveButton, saveRequests, saveTimers, relevanceCell, saveLeaves>>
    /\ UNCHANGED <<serverVars, shade, raised>>
    /\ UNCHANGED <<rowData, tbody, filterHidden, expanded, cellText,
                   verifySpan, changedCell, controls, filterTimeoutId,
                   taskQueue, rafPending, busyCursor, currentClientSort,
                   requests, counts, visibleCountCell>>

\* pageCountValue: null for an empty or unparseable input, else the number.
PageCountValue(text) ==
    IF text = <<>> THEN NaN ELSE ParseInt(text)

\* saveChanges(paperId) for the form of row r, up to the fetch.
saveChanges(r) ==
    /\ events < MaxEvents
    /\ events' = events + 1
    /\ FormShown(r)
    /\ ~saveButton[r].disabled
    /\ Cardinality(saveRequests) + Cardinality(saveTimers) < MaxPending
    /\ saveRequests' = saveRequests \cup
           {[id |-> events + 1, row |-> r, originalText |-> saveButton[r].text,
             data |-> [research_area |-> formInputs[r].research_area,
                       page_count |-> PageCountValue(formInputs[r].page_count)]]}
    /\ saveButton' = [saveButton EXCEPT ![r] =
                          [disabled |-> TRUE, text |-> "Saving..."]]
    /\ UNCHANGED <<formInputs, saveTimers, relevanceCell, saveLeaves>>
    /\ UNCHANGED <<serverVars, shade, raised>>
    /\ UNCHANGED <<rowData, tbody, filterHidden, expanded, cellText,
                   verifySpan, changedCell, controls, filterTimeoutId,
                   taskQueue, rafPending, busyCursor, currentClientSort,
                   requests, counts, visibleCountCell>>

\* The answers of /update_paper to a full-form save the model draws from.
SaveSuccessData ==
    {[changed_formatted |-> "t1", changed_by |-> "user",
      page_count |-> <<"7">>, relevance |-> <<"9">>]}

\* saveChanges, the branch data.status === 'success': the audit cells, the
\* page count cell and the relevance cell are patched, an expanded detail row
\* is collapsed, the button reads Saved! until the timer fires, updateCounts.
SaveSuccess(q, data) ==
    /\ q \in saveRequests
    /\ saveRequests' = saveRequests \ {q}
    /\ changedCell' = [changedCell EXCEPT ![q.row] = data.changed_formatted]
    /\ cellText' = [cellText EXCEPT
                       ![q.row]["changed_by"] = renderChangedBy(data.changed_by)]
    /\ rowData' = IF rowData[q.row].cellCount > PagesCellIndex
                  THEN [rowData EXCEPT ![q.row].pages = data.page_count]
                  ELSE rowData
    /\ relevanceCell' = [relevanceCell EXCEPT ![q.row] = data.relevance]
    /\ LET detailRow == NextElementSibling(tbody, Main(q.row))
       IN  expanded' = IF detailRow # NoElem /\ detailRow \in expanded
                       THEN expanded \ {detailRow} ELSE expanded
    /\ saveButton' = [saveButton EXCEPT ![q.row].text = "Saved!"]
    /\ saveTimers' = saveTimers \cup
           {[id |-> q.id, row |-> q.row, originalText |-> q.originalText]}
    /\ counts' = UpdateCountsFields(tbody, filterHidden, cellText')
    /\ visibleCountCell' = UpdateCountsVisible(tbody, filterHidden)
    /\ UNCHANGED <<formInputs, saveLeaves>>
    /\ UNCHANGED <<serverVars, shade, raised>>
    /\ UNCHANGED <<tbody, filterHidden, verifySpan, controls, filterTimeoutId,
                   taskQueue, rafPending, busyCursor, currentClientSort,
                   requests, events>>

\* The callback of setTimeout(..., 1500) after a successful save.
SaveTimerFires(t) ==
    /\ t \in saveTimers
    /\ saveTimers' = saveTimers \ {t}
    /\ saveButton' = [saveButton EXCEPT ![t.row] =
                          [disabled |-> FALSE, text |-> t.originalText]]
    /\ UNCHANGED <<formInputs, saveRequests, relevanceCell, saveLeaves>>
    /\ UNCHANGED <<pageVars, serverVars, shade, raised>>

\* saveChanges restoring the label and leaving the button disabled.
FailedSaveButtonStaysDisabled(q) == [disabled |-> TRUE, text |-> q.originalText]

\* The button after a failed save.
FailedSaveButton(q) == [disabled |-> FALSE, text |-> q.originalText]

\* saveChanges, the else branch and the catch.
SaveFailure(q, kind) ==
    /\ q \in saveRequests
    /\ kind \in FailureKinds
    /\ saveRequests' = saveRequests \ {q}
    /\ saveButton' = [saveButton EXCEPT ![q.row] = FailedSaveButton(q)]
    /\ UNCHANGED <<formInputs, saveTimers, relevanceCell, saveLeaves>>
    /\ UNCHANGED <<pageVars, serverVars, shade, raised>>

\* The page with the detail forms: rows are expanded and their content
\* loaded, inputs edited, forms saved and status cells cycled, with every
\* order of the answers.
InitSave ==
    /\ LoadedPage(RenderedBody(NumRows), [r \in Rows |-> FixtureRow(r)],
                  [r \in Rows |-> FixtureCells(r)], DefaultControls)
    /\ journalRows = <<>>
    /\ \E inMain \in BOOLEAN :
          LoadedForms([r \in Rows |-> FixtureRow(r)], inMain)

NextSave ==
    \/ \E r \in Rows : toggleDetails_filtering(r)
    \/ \E q \in detailRequests : DetailSuccess(q)
    \/ \E r \in Rows : \E value \in PageCountInputs : FormInput(r, value)
    \/ \E r \in Rows : saveChanges(r)
    \/ \E q \in saveRequests : \E data \in SaveSuccessData : SaveSuccess(q, data)
    \/ \E q \in saveRequests : \E kind \in FailureKinds : SaveFailure(q, kind)
    \/ \E t \in saveTimers : SaveTimerFires(t)
    \/ \E r \in Rows : ClickStatus(r)
    \/ \E q \in requests : \E data \in SuccessData : AjaxSuccess(q, data)
    \/ \E q \in requests : \E kind \in FailureKinds : AjaxFailure(q, kind)

SpecSave == InitSave /\ [][NextSave]_vars


\* ------------------------------------------------------------------ per-row actions
\* renderStatus: the glyph of a value of the answer.
renderStatus(value) ==
    IF value = "true" THEN "yes" ELSE IF value = "false" THEN "no" ELSE "unk"

\* renderVerifiedBy: the text of the span it builds.
renderVerifiedBy(value) ==
    IF value = "user" THEN "user"
    ELSE IF value = "null" \/ value = "" THEN "unk"
    ELSE "computer"

\* The variables the per-row click handler and its callbacks leave alone.
actionLeaves == <<journalRows, saveButton, saveRequests, saveTimers,
                  relevanceCell, saveBtnInMainRow, highlight, flashTimers>>

\* The click handler for .classify-btn and .verify-btn, on the button of row
\* r, up to the fetch.  The buttons come with the detail content.
RowActionClick(r, actionType) ==
    /\ events < MaxEvents
    /\ events' = events + 1
    /\ placeholder[r] = "loaded" /\ Detail(r) \in expanded
    /\ ~actionButton[r][actionType].disabled
    /\ Cardinality(actionRequests) < MaxPending
    /\ actionButton' = [actionButton EXCEPT ![r][actionType] =
                           [disabled |-> TRUE, text |-> "Running..."]]
    /\ actionRequests' = actionRequests \cup
           {[id |-> events + 1, row |-> r, actionType |-> actionType,
             paperId |-> PaperId(r)]}
    /\ UNCHANGED <<formInputs, actionLeaves>>
    /\ UNCHANGED <<serverVars, shade, raised>>
    /\ UNCHANGED <<rowData, tbody, filterHidden, expanded, cellText,
                   verifySpan, changedCell, controls, filterTimeoutId,
                   taskQueue, rafPending, busyCursor, currentClientSort,
                   requests, counts, visibleCountCell>>

\* The answers of /classify and /verify with status success the model draws
\* from.
RowActionData ==
    {[is_offtopic |-> "false", changed_formatted |-> "t2",
      changed_by |-> "model", verified_by |-> "model",
      page_count |-> <<"1", "2">>, reasoning_trace |-> <<"C", "a">>,
      research_area |-> <<"a", "b">>]}

\* The button once the finally has run.
ActionButtonStillRunning(q) == [disabled |-> TRUE, text |-> "Running..."]

ActionButtonRestored(q) == [disabled |-> FALSE, text |-> ActionLabel(q.actionType)]

\* The branch data.status === 'success': the cells of the row are patched,
\* the traces and the form of an expanded detail row too, updateCounts; then
\* the finally.
RowActionSuccess(q, data) ==
    /\ q \in actionRequests
    /\ actionRequests' = actionRequests \ {q}
    /\ LET detailRow == NextElementSibling(tbody, Main(q.row))
           isExpanded == detailRow # NoElem /\ detailRow \in expanded
           loaded == isExpanded /\ placeholder[q.row] = "loaded"
       IN  /\ rowData' = [rowData EXCEPT
                  ![q.row].pages =
                      IF rowData[q.row].cellCount > PagesCellIndex
                      THEN data.page_count ELSE @,
                  ![q.row].trace = IF loaded THEN data.reasoning_trace ELSE @]
           /\ formInputs' =
                  IF loaded
                  THEN [formInputs EXCEPT ![q.row].research_area = data.research_area]
                  ELSE formInputs
    /\ cellText' = [cellText EXCEPT
           ![q.row]["is_offtopic"] = renderStatus(data.is_offtopic),
           ![q.row]["changed_by"] = renderChangedBy(data.changed_by),
           ![q.row]["verified_by"] = renderVerifiedBy(data.verified_by)]
    /\ verifySpan' = [verifySpan EXCEPT ![q.row] = TRUE]
    /\ changedCell' = [changedCell EXCEPT ![q.row] = data.changed_formatted]
    /\ counts' = UpdateCountsFields(tbody, filterHidden, cellText')
    /\ visibleCountCell' = UpdateCountsVisible(tbody, filterHidden)
    /\ actionButton' = [actionButton EXCEPT
                           ![q.row][q.actionType] = ActionButtonRestored(q)]
    /\ UNCHANGED actionLeaves
    /\ UNCHANGED <<serverVars, shade, raised>>
    /\ UNCHANGED <<tbody, filterHidden, expanded, controls, filterTimeoutId,
                   taskQueue, rafPending, busyCursor, currentClientSort,
                   requests, events>>

\* The else branch and the catch (an alert), then the finally.
RowActionFailure(q, kind) ==
    /\ q \in actionRequests
    /\ kind \in FailureKinds
    /\ actionRequests' = actionRequests \ {q}
    /\ actionButton' = [actionButton EXCEPT
                           ![q.row][q.actionType] = ActionButtonRestored(q)]
    /\ UNCHANGED <<formInputs, actionLeaves>>
    /\ UNCHANGED <<pageVars, serverVars, shade, raised>>

\* The page with the per-row buttons: rows are expanded and their content
\* loaded, papers classified and verified one by one, status cells cycled,
\* with every order of the answers.
NextRowAction ==
    \/ \E r \in Rows : toggleDetails_filtering(r)
    \/ \E q \in detailRequests : DetailSuccess(q)
    \/ \E r \in Rows : \E a \in ActionTypes : RowActionClick(r, a)
    \/ \E q \in actionRequests : \E data \in RowActionData : RowActionSuccess(q, data)
    \/ \E q \in actionRequests : \E kind \in FailureKinds : RowActionFailure(q, kind)
    \/ \E r \in Rows : ClickStatus(r)
    \/ \E q \in requests : \E data \in SuccessData : AjaxSuccess(q, data)
    \/ \E q \in requests : \E kind \in FailureKinds : AjaxFailure(q, kind)

SpecRowAction == Init /\ [][NextRowAction]_vars


\* ------------------------------------------------------------------ SpecRequest
\* The requests of applyServerSideFilters for every content of the four text
\* controls: empty, blank, not a number, a number, a number followed by text.
RequestNumberInputs == {<<>>, <<" ">>, <<"x">>, <<"5">>, <<"5", "x">>}
RequestSearchInputs == {<<>>, <<" ">>, <<" ", "x">>}

InitRequest ==
    \E yf \in RequestNumberInputs : \E yt \in RequestNumberInputs :
    \E mp \in RequestNumberInputs : \E s \in RequestSearchInputs :
        Loaded([r \in Rows |-> FixtureRow(r)], [r \in Rows |-> FixtureCells(r)],
               [DefaultControls EXCEPT !.yearFrom = yf, !.yearTo = yt,
                                       !.minPages = mp, !.search = s])

NextRequest ==
    \/ HideOfftopicChange
    \/ \E q \in loadRequests : LoadTableSuccess(q)
    \/ \E q \in loadRequests : LoadTableFailure(q)

SpecRequest == InitRequest /\ [][NextRequest]_vars


\* ------------------------------------------------------------------ SpecQuickEdit
\* Rapid clicks on the status cells alone, with every order and outcome of
\* the answers.
NextQuickEdit ==
    \/ \E r \in Rows : ClickStatus(r)
    \/ \E q \in requests : \E data \in SuccessData : AjaxSuccess(q, data)
    \/ \E q \in requests : \E kind \in FailureKinds : AjaxFailure(q, kind)

SpecQuickEdit == Init /\ [][NextQuickEdit]_vars

\* ------------------------------------------------------------------ SpecFlash
\* Clicks on the status cells and on the verified-by cells with their flash
\* timers, every order of timers and answers and every outcome of the answers.
NextFlash ==
    \/ \E r \in Rows : ClickStatus(r)
    \/ \E r \in Rows : ClickVerify(r)
    \/ \E q \in requests : \E data \in SuccessData : AjaxSuccess(q, data)
    \/ \E q \in requests : \E kind \in FailureKinds : AjaxFailure(q, kind)
    \/ \E t \in flashTimers : FlashTimerFires(t)

SpecFlash == Init /\ [][NextFlash]_vars

\* ------------------------------------------------------------------ SpecCounts
\* The three callers of updateCounts of the statically filtered page: filter
\* passes, sorts with their animation frames, and quick edits of the status
\* cells with their answers.
NextCounts ==
    \/ \E name \in TouchedControls : \E value \in ControlValues(name) :
           InputChange(name, value)
    \/ DebounceFires
    \/ applyFilters
    \/ \E sortBy \in SortColumns : HeaderClick(sortBy)
    \/ SortRows
    \/ AnimationFrame
    \/ \E r \in Rows : ClickStatus(r)
    \/ \E q \in requests : \E data \in SuccessData : AjaxSuccess(q, data)
    \/ \E q \in requests : \E kind \in FailureKinds : AjaxFailure(q, kind)

SpecCounts == Init /\ [][NextCounts]_vars

\* ------------------------------------------------------------------ Spec
Next ==
    \/ \E name \in TouchedControls : \E value \in ControlValues(name) :
           InputChange(name, value)
    \/ DebounceFires
    \/ applyFilters
    \/ \E sortBy \in SortColumns : HeaderClick(sortBy)
    \/ SortRows
    \/ AnimationFrame
    \/ \E r \in Rows : toggleDetails(r)
    \/ \E r \in Rows : ClickStatus(r)
    \/ \E r \in Rows : ClickVerify(r)
    \/ \E q \in requests : \E data \in SuccessData : AjaxSuccess(q, data)
    \/ \E q \in requests : \E kind \in FailureKinds : AjaxFailure(q, kind)

Spec == Init /\ [][Next]_vars

\* ------------------------------------------------------------------ claims
\* No request in flight, no timer and no animation frame pending.
Quiescent ==
    requests = {} /\ ~filterTimeoutId /\ taskQueue = <<>> /\ ~rafPending

\* The rows shown under the markers hid: main rows without filter-hidden.
VisibleUnder(hid) == {r \in Rows : Main(r) \notin hid}

VisibleRowSet == VisibleUnder(filterHidden)

\* The affirmative glyph of a field: the user glyph for the actor fields.
AffirmativeGlyph(f) == IF f \in {"changed_by", "verified_by"} THEN "user" ELSE "yes"

\* The number of rows shown under hid whose cell for field f shows the
\* affirmative glyph in cells.
AffirmativeCountIn(f, hid, cells) ==
    Cardinality({r \in VisibleUnder(hid) : cells[r][f] = AffirmativeGlyph(f)})

AffirmativeCount(f) == AffirmativeCountIn(f, filterHidden, cellText)

\* C1: in every reachable state every main row is directly followed by its own
\* detail row, and the two carry the same filter-hidden marker.
C1_PairedMarker ==
    \A r \in Rows :
        /\ NextElementSibling(tbody, Main(r)) = Detail(r)
        /\ (Main(r) \in filterHidden) <=> (Detail(r) \in filterHidden)

\* C1 witness: a row and its detail are hidden by a filter pass while another
\* row is shown, a sort has moved rows, and a quick edit has been made.
C1_Witness ==
    /\ \E r \in Rows : Main(r) \in filterHidden /\ Detail(r) \in filterHidden
    /\ \E r \in Rows : Main(r) \notin filterHidden
    /\ tbody # RenderedBody(NumRows)
    /\ currentClientSort.column # "null"
    /\ cellText # [r \in Rows |-> FixtureCells(r)]

\* C2: in every quiescent state each displayed per-field count equals the
\* number of visible rows showing the affirmative glyph for that field.
C2_CountsNeverDrift ==
    Quiescent => \A f \in CountFieldSet : counts[f] = AffirmativeCount(f)

\* A step in which updateCounts runs to its end: a filter pass, the animation
\* frame after a sort, the success branch of a quick edit.
UpdateCountsReturns ==
    \/ taskQueue' # taskQueue /\ applyFilters
    \/ rafPending' # rafPending /\ AnimationFrame
    \/ \E q \in requests \ requests' :
           \E data \in SuccessData : AjaxSuccess(q, data)

\* The count displays cnt and vis read what the table tb with markers hid and
\* glyphs cells calls for, and updateCounts run on it writes them again.
CountsMatch(cnt, vis, tb, hid, cells) ==
    /\ \A f \in CountFieldSet : cnt[f] = AffirmativeCountIn(f, hid, cells)
    /\ vis.visible = Cardinality(VisibleUnder(hid))
    /\ vis.total = NumRows
    /\ UpdateCountsFields(tb, hid, cells) = cnt
    /\ UpdateCountsVisible(tb, hid) = vis

CountsMatchTable ==
    CountsMatch(counts, visibleCountCell, tbody, filterHidden, cellText)

\* C4: right after updateCounts returns every per-field count is the number of
\* visible rows showing the affirmative glyph (the user glyph for changed_by
\* and verified_by), the visible figure is the number of rows without the
\* hidden marker, the total is the number of loaded rows, and running
\* updateCounts again writes the same.
C4_CountsAfterUpdate ==
    [][UpdateCountsReturns =>
          CountsMatch(counts', visibleCountCell', tbody', filterHidden',
                      cellText')]_vars

\* C4 witness: counts recomputed while a row is hidden and a shown row carries
\* an affirmative glyph set by a quick edit.
C4_Witness ==
    /\ Quiescent
    /\ CountsMatchTable
    /\ \E r \in Rows : Main(r) \in filterHidden
    /\ \E r \in VisibleRowSet : cellText[r]["is_offtopic"] = "yes"
    /\ counts["changed_by"] > 0

\* Two visible rows with equal primary sort value for the column of sort.
Tied(a, b, sort) ==
    /\ a \in VisibleRowSet /\ b \in VisibleRowSet /\ a # b
    /\ SortValue(a, sort.column, rowData, cellText) =
       SortValue(b, sort.column, rowData, cellText)

\* Row a stands before row b in the table body tb.
Before(a, b, tb) == IndexOf(tb, Main(a)) < IndexOf(tb, Main(b))

\* In tb every tied pair stands in ascending row-id order.
TiesAscendingById(tb, sort) ==
    \A a, b \in Rows :
        (Tied(a, b, sort) /\ StrLess(PaperId(a), PaperId(b))) => Before(a, b, tb)

\* In tb every tied pair stands in ascending row-id order when the direction
\* of sort is ASC and in descending row-id order when it is DESC.
TiesFollowDirection(tb, sort) ==
    \A a, b \in Rows :
        (Tied(a, b, sort) /\ StrLess(PaperId(a), PaperId(b))) =>
            IF sort.direction = "ASC" THEN Before(a, b, tb)
            ELSE Before(b, a, tb)

\* The step is a run of the deferred body of the header click handler.
SortReturns == taskQueue' # taskQueue /\ SortRows

AscendingPair(a, b, column) ==
    LET va == SortValue(a, column, rowData, cellText)
        vb == SortValue(b, column, rowData, cellText)
    IN  \/ ValueGreater(vb, va)
        \/ (~ValueGreater(va, vb) /\ StrLess(PaperId(a), PaperId(b)))

\* In tb the visible rows stand after every hidden row, in the ascending order
\* of column (sort value, then row id).
VisibleAscendingAtEnd(tb, column) ==
    /\ \A h \in Rows \ VisibleRowSet : \A v \in VisibleRowSet : Before(h, v, tb)
    /\ \A a, b \in VisibleRowSet :
           (a # b /\ Before(a, b, tb)) => AscendingPair(a, b, column)

\* The sort about to run answers a click on the column sorted DESC last.
SecondClickOnColumn ==
    /\ taskQueue # <<>>
    /\ Head(taskQueue).type = "sort"
    /\ Head(taskQueue).column = currentClientSort.column
    /\ currentClientSort.direction = "DESC"

StatusGlyphs == {"unk", "yes", "no"}

GlyphSuccessor == ("unk" :> "yes") @@ ("yes" :> "no") @@ ("no" :> "unk")

SemanticValue == ("unk" :> "unknown") @@ ("yes" :> "true") @@ ("no" :> "false")

\* The request the step has just sent.
SentBy(q, r, field) ==
    /\ q \in requests' /\ q \notin requests
    /\ q.row = r /\ q.field = field

\* C7: a click on a status cell writes the successor glyph into the cell while
\* the persistence request is still in flight, the request remembers the glyph
\* the cell showed before the click, and a request that fails for any reason
\* puts that remembered glyph back into the cell.
C7_OptimisticThenRevert ==
    [][/\ \A r \in Rows :
              (ClickStatus(r) /\ cellText[r]["is_offtopic"] \in StatusGlyphs) =>
                  /\ cellText'[r]["is_offtopic"] =
                         GlyphSuccessor[cellText[r]["is_offtopic"]]
                  /\ \E q \in requests' :
                         /\ SentBy(q, r, "is_offtopic")
                         /\ q.currentText = cellText[r]["is_offtopic"]
       /\ \A q \in requests : \A kind \in FailureKinds :
              (q.field = "is_offtopic" /\ AjaxFailure(q, kind)) =>
                  cellText'[q.row]["is_offtopic"] = q.currentText]_vars

\* C7 witness: the only event was a click on the status cell of row 1, its
\* request has failed, and the cell shows the glyph it was loaded with.
C7_Witness ==
    /\ events = 1
    /\ requests = {}
    /\ changedCell[1] = "t0"
    /\ cellText = [r \in Rows |-> FixtureCells(r)]
    /\ \A r \in Rows : verifySpan[r]
    /\ expanded = {}
    /\ controls = DefaultControls
    /\ currentClientSort.column = "null"
    /\ taskQueue = <<>>

\* A click on the status cell of row r changes its text.
StatusClickMoves(r) ==
    LET currentText == cellText[r]["is_offtopic"]
        next == IF currentText \in DOMAIN STATUS_CYCLE
                THEN STATUS_CYCLE[currentText].next
                ELSE STATUS_CYCLE["unk"].next
    IN  next # currentText

\* A click on the verified-by cell of row r is not ignored: the cell holds its
\* span and the symbol in it has a successor.
VerifyClickMoves(r) ==
    /\ verifySpan[r]
    /\ cellText[r]["verified_by"] \in DOMAIN VERIFIED_BY_CYCLE

\* C8 as claimed: whatever clicks were made and whatever requests failed, every
\* editable status cell and every verified-by cell still answers a click by
\* moving to the successor of what it shows.
C8_NeverStuck ==
    \A r \in Rows : StatusClickMoves(r) /\ VerifyClickMoves(r)

\* C9: a click on a status cell showing one of the three glyphs moves it
\* unknown -> yes -> no -> unknown, so that three clicks lead back to the
\* glyph shown before, and the request carries the value the new glyph stands
\* for (true, false, unknown).
C9_StatusCycle ==
    [][\A r \in Rows :
           (ClickStatus(r) /\ cellText[r]["is_offtopic"] \in StatusGlyphs) =>
               LET old == cellText[r]["is_offtopic"]
                   new == cellText'[r]["is_offtopic"]
               IN  /\ new = GlyphSuccessor[old]
                   /\ GlyphSuccessor[GlyphSuccessor[new]] = old
                   /\ \E q \in requests' :
                          /\ SentBy(q, r, "is_offtopic")
                          /\ q.value = SemanticValue[new]]_vars

\* C9 witness: the third event is the third click in a row on the status cell
\* of row 1, and the cell shows again the glyph it was loaded with.
C9_Witness ==
    /\ events = 3
    /\ cellText[1]["is_offtopic"] = FixtureCells(1).is_offtopic
    /\ \E q \in requests :
           /\ q.id = 3 /\ q.row = 1 /\ q.field = "is_offtopic"
           /\ q.currentText = GlyphSuccessor[GlyphSuccessor[FixtureCells(1).is_offtopic]]
           /\ q.value = SemanticValue[FixtureCells(1).is_offtopic]

\* C10 as claimed: a click on a status cell whose text is none of the three
\* glyphs moves it to the successor of unknown and sends the value of that
\* successor, and when that request fails the cell shows unknown.
C10_UnrecognizedTreatedAsUnknown ==
    [][/\ \A r \in Rows :
              (ClickStatus(r) /\ cellText[r]["is_offtopic"] \notin StatusGlyphs) =>
                  /\ cellText'[r]["is_offtopic"] = GlyphSuccessor["unk"]
                  /\ \E q \in requests' :
                         /\ SentBy(q, r, "is_offtopic")
                         /\ q.value = SemanticValue[GlyphSuccessor["unk"]]
       /\ \A q \in requests : \A kind \in FailureKinds :
              (/\ q.field = "is_offtopic"
               /\ q.currentText \notin StatusGlyphs
               /\ AjaxFailure(q, kind)) =>
                  cellText'[q.row]["is_offtopic"] = "unk"]_vars

\* The criteria of the filter engine, each on row r under the controls.
KnownNumber(text) == ~ParseInt(Trim(text)).nan

NumberOf(text) == ParseInt(Trim(text)).val

PassesOfftopic(r) ==
    ~(controls.hideOfftopic /\ cellText[r]["is_offtopic"] = "yes")

PassesMinPages(r) ==
    \/ ~KnownNumber(controls.minPages)
    \/ ~KnownNumber(rowData[r].pages)
    \/ NumberOf(rowData[r].pages) >= NumberOf(controls.minPages)

PassesYear(r) ==
    /\ KnownNumber(rowData[r].year)
    /\ KnownNumber(controls.yearFrom) =>
           NumberOf(rowData[r].year) >= NumberOf(controls.yearFrom)
    /\ KnownNumber(controls.yearTo) =>
           NumberOf(rowData[r].year) <= NumberOf(controls.yearTo)

PassesSearch(r) ==
    LET term == ToLowerCase(Trim(controls.search))
    IN  \/ term = <<>>
        \/ Includes(ToLowerCase(RowTextContent(r, rowData, cellText, changedCell)),
                    term)
        \/ Includes(ToLowerCase(rowData[r].detail), term)

PassesEveryCriterion(r) ==
    PassesOfftopic(r) /\ PassesMinPages(r) /\ PassesYear(r) /\ PassesSearch(r)

\* Under the markers hid each row is shown exactly when it passes every
\* criterion.
VisibleIffPasses(hid) ==
    \A r \in Rows : (Main(r) \notin hid) <=> PassesEveryCriterion(r)

\* The step is a run of applyFilters: the one step that takes a filter task
\* off the queue of zero-delay timers.
FilterPassReturns ==
    /\ taskQueue # <<>>
    /\ Head(taskQueue).type = "filter"
    /\ taskQueue' = Tail(taskQueue)

C11_DetailFetchedAtMostOnce == \A r \in Rows : detailLog[r] <= 1

\* The start requests in flight are at most one, and while one is in flight
\* the flag is set and the four batch buttons are disabled.
OneBatchInFlight(inFlight, running, disabled) ==
    /\ Cardinality(inFlight) <= 1
    /\ inFlight # {} => (running /\ \A b \in BatchButtons : disabled[b])

\* C12: at most one batch start request is in flight at any time, the four
\* batch buttons are disabled while it is, and a call of runBatchAction made
\* meanwhile, whatever its mode and action type, sends no request.
C12_OneBatchInFlight ==
    [][/\ OneBatchInFlight(batchRequests, isBatchRunning, batchDisabled)
       /\ OneBatchInFlight(batchRequests', isBatchRunning', batchDisabled')
       /\ (batchRequests # {} /\ events' # events) =>
              batchRequests' \subseteq batchRequests]_vars

\* C12 witness: a batch request is in flight and a later call of
\* runBatchAction has been made and rejected.
C12_Witness ==
    /\ \E q \in batchRequests : q.id < events
    /\ detailLog = [r \in Rows |-> 0]
    /\ loadLog = <<>>
    /\ isBatchRunning

\* The /load_table request sent last.
LastLoadParams == loadLog[Len(loadLog)]

\* C14 as claimed: once every /load_table request sent has been answered, the
\* query string of the URL and the table body are those of the request sent
\* last, in whatever order the answers came.
C14_UrlFollowsLastRequest ==
    (loadLog # <<>> /\ loadRequests = {}) =>
        /\ url = LastLoadParams
        /\ tbody = RenderedRows(LoadTable(LastLoadParams))

\* The step runs the callback of the debounce timer.
TimerCallbackRuns == filterTimeoutId /\ ~filterTimeoutId'

PassesWithWhatItHas(r) ==
    /\ cellText[r]["is_offtopic"] = NoCell \/ PassesOfftopic(r)
    /\ ~HasCell(r, PagesCellIndex, rowData) \/ PassesMinPages(r)
    /\ ~HasCell(r, YearCellIndex, rowData) \/ PassesYear(r)
    /\ LET term == ToLowerCase(Trim(controls.search))
       IN  \/ term = <<>>
           \/ Includes(ToLowerCase(RowTextContent(r, rowData, cellText,
                                                  changedCell)), term)
           \/ /\ Detail(r) \in Elems(tbody)
              /\ Includes(ToLowerCase(rowData[r].detail), term)

\* After a filter pass each row is shown exactly when it passes the criteria
\* it has the elements for, and the counts are those of the rows shown.
MalformedRowsFiltered(hid, cnt, vis) ==
    /\ \A r \in Rows : (Main(r) \notin hid) <=> PassesWithWhatItHas(r)
    /\ cnt = UpdateCountsFields(tbody, hid, cellText)
    /\ vis = UpdateCountsVisible(tbody, hid)

\* C15: a filter pass over a table with a malformed row throws nothing, shows
\* each row as its present elements decide, and runs to its end: counts
\* written, rows shaded, busy cursor removed.
C15_MalformedRowsPassQuietly ==
    [][FilterPassReturns =>
           /\ ~raised'
           /\ ~busyCursor'
           /\ MalformedRowsFiltered(filterHidden', counts', visibleCountCell')]_vars

\* The year of row r is missing, is no number, or lies outside the range the
\* year boxes give, either bound included in the range.
YearOutOfRange(r) ==
    \/ ~KnownNumber(rowData[r].year)
    \/ /\ KnownNumber(controls.yearFrom)
       /\ NumberOf(rowData[r].year) < NumberOf(controls.yearFrom)
    \/ /\ KnownNumber(controls.yearTo)
       /\ NumberOf(rowData[r].year) > NumberOf(controls.yearTo)

\* C16: with the other criteria unset, a filter pass hides a row exactly when
\* its year is missing or unparsable, below year-from, or above year-to, both
\* bounds being inclusive, and the count display reads the rows left visible
\* of the rows loaded.
C16_YearRangeInclusive ==
    [][FilterPassReturns =>
           /\ \A r \in Rows : (Main(r) \in filterHidden') <=> YearOutOfRange(r)
           /\ visibleCountCell' =
                  [visible |-> Cardinality({r \in Rows : ~YearOutOfRange(r)}),
                   total |-> NumRows]]_vars

\* The page-count cell of row r holds a known number strictly below the
\* threshold of the min-page-count box.
PagesBelowThreshold(r) ==
    /\ KnownNumber(rowData[r].pages)
    /\ KnownNumber(controls.minPages)
    /\ NumberOf(rowData[r].pages) < NumberOf(controls.minPages)

\* C17: with the other criteria passed, a filter pass hides a row exactly when
\* its page count is a known number strictly below the minimum; a row with no
\* page count, with a text that is no number, or with a count equal to or
\* above the minimum stays visible.
C17_MinPagesHidesKnownBelow ==
    [][FilterPassReturns =>
           \A r \in Rows :
               (Main(r) \in filterHidden') <=> PagesBelowThreshold(r)]_vars

\* C17 witness: after a pass with a minimum of 5 and no input pending, a row
\* of 3 pages is hidden next to a visible row without page count.
C17_Witness ==
    /\ Quiescent
    /\ controls.minPages = <<"5">>
    /\ rowData[1].pages = <<"3">>
    /\ Main(1) \in filterHidden
    /\ rowData[2].pages = <<>>
    /\ Main(2) \notin filterHidden

\* The markers, counts and shading the page showed once loaded, before any
\* control was touched: the row content being what it was then, those of a
\* first pass under the default controls.
LoadedMarkers ==
    FilterPass(tbody, {}, DefaultControls, rowData, cellText, changedCell)

LoadedCounts == UpdateCountsFields(tbody, LoadedMarkers, cellText)

LoadedVisibleCount == UpdateCountsVisible(tbody, LoadedMarkers)

LoadedShade == applyAlternatingShading(tbody, LoadedMarkers, NoShade).shade

\* C18: a filter pass computes the markers from the current controls and row
\* content alone, whatever markers earlier passes left; with hide-off-topic
\* enabled it hides every row whose off-topic cell shows the affirmative
\* glyph; and with the controls back to what they were at load it leaves the
\* markers, counts and shading of every row as they were at load.
C18_ToggleRoundTrip ==
    [][FilterPassReturns =>
           /\ filterHidden' =
                  FilterPass(tbody, {}, controls, rowData, cellText, changedCell)
           /\ controls.hideOfftopic =>
                  \A r \in Rows : cellText[r]["is_offtopic"] = "yes" =>
                                      Main(r) \in filterHidden'
           /\ controls = DefaultControls =>
                  /\ filterHidden' = LoadedMarkers
                  /\ counts' = LoadedCounts
                  /\ visibleCountCell' = LoadedVisibleCount
                  /\ shade' = LoadedShade]_vars

\* C18 witness: a row with the affirmative glyph that was shown at load is
\* hidden by a pass with the toggle enabled; the toggle is disabled again, the
\* controls are as at load, and the pass that re-shows the row is about to run.
\* The year and page count of the row pass every bound the boxes can hold, and
\* the other row, hidden by every search that hides this one, is shown: only
\* the toggle can have hidden the row.
C18_Witness ==
    /\ cellText[1]["is_offtopic"] = "yes"
    /\ rowData[1].year = <<"2", "0", "2", "0">>
    /\ rowData[1].pages = <<"1", "2">>
    /\ Main(2) \notin filterHidden
    /\ Main(1) \notin LoadedMarkers
    /\ Main(1) \in filterHidden
    /\ controls = DefaultControls
    /\ ~filterTimeoutId
    /\ Len(taskQueue) = 1
    /\ Head(taskQueue).type = "filter"

\* term occurs in text at some position, letter case ignored.
CaseInsensitiveSubstring(term, text) ==
    \E i \in 0..(Len(text) - Len(term)) :
        \A j \in 1..Len(term) : LowerChar(text[i + j]) = LowerChar(term[j])

\* Row r matches the search box: the trimmed search text is empty, or occurs
\* in the text of the main row or in the text of its detail row outside the
\* evaluator and verifier traces.
SearchMatches(r) ==
    LET term == Trim(controls.search)
    IN  \/ term = <<>>
        \/ CaseInsensitiveSubstring(
               term, RowTextContent(r, rowData, cellText, changedCell))
        \/ CaseInsensitiveSubstring(term, rowData[r].detail)

\* C19: with the other criteria passed, a filter pass keeps a row visible
\* exactly when the trimmed search text is a case-insensitive substring of the
\* main row's text or of its detail row's text without the trace content; an
\* empty search text hides no row.
C19_SearchSubstringNoTrace ==
    [][FilterPassReturns =>
           \A r \in Rows : (Main(r) \notin filterHidden') <=> SearchMatches(r)]_vars

\* C19 witness: after a pass, the search text "Ca" occurs in the trace of
\* row 1 only and the row is hidden.
C19_Witness ==
    /\ Quiescent
    /\ controls.search = <<"C", "a">>
    /\ rowData[1].trace = <<"C", "a">>
    /\ rowData[1].detail = <<>>
    /\ Main(1) \in filterHidden

\* The table body new holds the elements of old, each once, and every main
\* row of it is directly followed by its own detail row.
SameRowsPaired(old, new) ==
    /\ Len(new) = Len(old)
    /\ Elems(new) = Elems(old)
    /\ \A i \in 1..Len(new) :
           new[i].kind = "main" =>
               (i < Len(new) /\ new[i + 1] = Detail(new[i].row))

\* C20: a header-click sort loses and duplicates no row, leaves every
\* filter-hidden marker and the content of every cell as they were, and leaves
\* each main row directly followed by its own detail row.
C20_SortMovesRowsOnly ==
    [][SortReturns =>
           /\ SameRowsPaired(tbody, tbody')
           /\ filterHidden' = filterHidden
           /\ rowData' = rowData
           /\ cellText' = cellText
           /\ changedCell' = changedCell
           /\ verifySpan' = verifySpan]_vars

\* C20 witness: a sort has run and the rows stand in another order than the
\* one they were rendered in.
C20_Witness ==
    /\ currentClientSort.column # "null"
    /\ Len(tbody) = 2 * NumRows
    /\ tbody # RenderedBody(NumRows)

\* The key an ascending sort orders row r by: on a numeric column the number
\* in the cell, 0 for an empty or unparseable cell; on a status column 0 for
\* unknown, 1 for false and 2 for true.
SortKey(r, column) ==
    IF column = "year"
    THEN (IF KnownNumber(rowData[r].year) THEN NumberOf(rowData[r].year) ELSE 0)
    ELSE IF column = "page_count"
    THEN (IF KnownNumber(rowData[r].pages) THEN NumberOf(rowData[r].pages) ELSE 0)
    ELSE (IF cellText[r][column] = "yes" THEN 2
          ELSE IF cellText[r][column] = "no" THEN 1 ELSE 0)

\* In tb every two visible rows stand by ascending key, rows of equal key by
\* ascending row id.
KeysAscending(tb, column) ==
    \A a, b \in VisibleRowSet :
        (a # b /\ Before(a, b, tb)) =>
            \/ SortKey(a, column) < SortKey(b, column)
            \/ /\ SortKey(a, column) = SortKey(b, column)
               /\ StrLess(PaperId(a), PaperId(b))

\* C21: an ascending sort on a numeric or status column leaves the visible
\* rows ordered by the parsed number, an empty or unparseable cell counting as
\* 0, or by unknown before false before true, and rows of equal key in
\* ascending row-id order.
C21_AscendingSortKeys ==
    [][(SortReturns /\ currentClientSort'.direction = "ASC") =>
           KeysAscending(tbody', currentClientSort'.column)]_vars

\* C21 witness: after an ascending sort on the page count the row without
\* page count stands before the row of 12 pages, which was rendered first.
C21_Witness ==
    /\ currentClientSort = [column |-> "page_count", direction |-> "ASC"]
    /\ taskQueue = <<>>
    /\ rowData[1].pages = <<"1", "2">>
    /\ rowData[NumRows].pages = <<>>
    /\ Before(NumRows, 1, tbody)

\* The step runs the deferred body of a header click: it takes a sort task
\* off the queue of zero-delay timers.
SortTaskRuns ==
    /\ taskQueue # <<>>
    /\ Head(taskQueue).type = "sort"
    /\ taskQueue' = Tail(taskQueue)

OppositeDirection(direction) == IF direction = "DESC" THEN "ASC" ELSE "DESC"

\* C22: the sort state names no column once the page is loaded and changes in
\* no step but the handling of a header click; the click stores the column
\* clicked, with the opposite of the stored direction when that column is the
\* active one and with DESC otherwise, whatever the type of the column.
C22_SortStateTransitions ==
    /\ currentClientSort.column = "null"
    /\ [][/\ (currentClientSort' # currentClientSort) => SortTaskRuns
          /\ SortTaskRuns =>
                 LET sortBy == Head(taskQueue).column
                 IN  /\ currentClientSort'.column = sortBy
                     /\ currentClientSort'.direction =
                            IF currentClientSort.column = sortBy
                            THEN OppositeDirection(currentClientSort.direction)
                            ELSE "DESC"]_vars

\* C22 witness: the active column is sorted ASC, which takes two clicks on
\* it, and the click on another header is about to be handled.
C22_Witness ==
    /\ currentClientSort.direction = "ASC"
    /\ currentClientSort.column # "null"
    /\ taskQueue # <<>>
    /\ Head(taskQueue).type = "sort"
    /\ Head(taskQueue).column # currentClientSort.column

\* The step runs applyAlternatingShading: at the end of a filter pass, or in
\* the animation frame a sort requested.
ShadingRuns == FilterPassReturns \/ (rafPending /\ ~rafPending')

\* Under the classes sh the visible group at 0-based position i of tb carries
\* one class on its main row and the same on its detail row: alt-shade-1 for
\* an even i, alt-shade-2 for an odd one.
ShadedByVisibleOrder(tb, hid, sh) ==
    LET visible == VisibleMainRows(tb, hid)
    IN  \A p \in 1..Len(visible) :
            LET class == IF (p - 1) % 2 = 0 THEN "alt-shade-1" ELSE "alt-shade-2"
            IN  /\ sh[visible[p]] = {class}
                /\ sh[Detail(visible[p].row)] = {class}

\* C23: after applyAlternatingShading every visible group carries exactly one
\* shade class, the same on its main and detail row, alt-shade-1 at even and
\* alt-shade-2 at odd positions of the visible order; running it again on the
\* same visible order changes no class.
C23_ShadeByVisiblePosition ==
    [][ShadingRuns =>
           /\ ShadedByVisibleOrder(tbody', filterHidden', shade')
           /\ applyAlternatingShading(tbody', filterHidden', shade').shade
                  = shade']_vars

\* C23 witness: the first row rendered is hidden by the filter, and the row
\* after it, shaded as second group at load, is shaded as first group.
C23_Witness ==
    /\ Quiescent
    /\ Main(1) \in filterHidden
    /\ Main(2) \notin filterHidden
    /\ Before(1, 2, tbody)
    /\ shade[Main(2)] = {"alt-shade-1"}
    /\ shade[Detail(2)] = {"alt-shade-1"}

\* The step runs the animation frame callbacks a sort requested.
FrameCallbacksRun == rafPending /\ ~rafPending'

\* C24: every header-click sort requests the animation frame callbacks; the
\* callbacks come to run; and once they have run the alternating shading
\* follows the visible order of the reordered table and the displayed counts
\* are those of its visible rows.
C24_SortRefreshesShadingAndCounts ==
    /\ [][/\ SortTaskRuns => rafPending'
          /\ FrameCallbacksRun =>
                 /\ ShadedByVisibleOrder(tbody', filterHidden', shade')
                 /\ CountsMatch(counts', visibleCountCell', tbody',
                                filterHidden', cellText')]_vars
    /\ (rafPending ~> ~rafPending)

\* C24 witness: a sort has reordered the table, its callbacks have run, and
\* shading and counts are those of the new order.
C24_Witness ==
    /\ Quiescent
    /\ currentClientSort.column # "null"
    /\ tbody # RenderedBody(NumRows)
    /\ ShadedByVisibleOrder(tbody, filterHidden, shade)
    /\ shade # LoadedShade
    /\ CountsMatchTable

\* ------------------------------------------------------------------ C25
VisibleNameCount(cells, i) ==
    Cardinality({j \in DOMAIN cells :
                    ~cells[j].hidden /\ Trim(cells[j].name) = Trim(cells[i].name)})

MostFrequent(cells) ==
    LET vis == {i \in DOMAIN cells : ~cells[i].hidden /\ Trim(cells[i].name) # <<>>}
    IN  IF vis = {} THEN 0
        ELSE LET m == CHOOSE i \in vis :
                          \A j \in vis : VisibleNameCount(cells, j)
                                            <= VisibleNameCount(cells, i)
             IN  VisibleNameCount(cells, m)

\* What the claim says of the visible rows i and j of a shaded table.
JournalShaded(cells) ==
    \A i \in DOMAIN cells :
        ~cells[i].hidden =>
            LET named == Trim(cells[i].name) # <<>>
                count == VisibleNameCount(cells, i)
                top == MostFrequent(cells)
                bg == cells[i].bg
            IN  /\ (bg # NoBackground) <=> (named /\ count > 1)
                /\ bg # NoBackground =>
                      /\ bg.den > 0
                      /\ maxLightness * bg.den <= bg.num
                      /\ bg.num <= minLightness * bg.den
                      \* 97 - 17 * (count - 1) / (maxCount - 1)
                      /\ bg.num * (top - 1) =
                            bg.den * (minLightness * (top - 1)
                                      - (minLightness - maxLightness) * (count - 1))
                      /\ count = top => bg.num = maxLightness * bg.den
                      /\ \A j \in DOMAIN cells :
                            (~cells[j].hidden /\ cells[j].bg # NoBackground) =>
                               /\ VisibleNameCount(cells, j) = count
                                     => cells[j].bg = bg
                               /\ VisibleNameCount(cells, j) < count
                                     => FracLeq(bg, cells[j].bg)

\* C25: after a journal shading pass a visible journal cell has a background
\* exactly when its non-empty name occurs on more than one visible row; the
\* lightness is 97 - 17 * (count - 1) / (maxCount - 1), within [80, 97], 80
\* for the most frequent name, equal for equal counts and never lighter for a
\* more frequent name; a background left on a visible cell by an earlier pass
\* is replaced.
C25_JournalShading ==
    [][JournalShadingPass => JournalShaded(journalRows')]_vars

\* A pass has run over a table where one name is on three visible rows and
\* another on two: the rarer name sits halfway (88.5) between the bounds.
C25_Witness ==
    /\ \E i, j \in JournalRowIds :
          /\ ~journalRows[i].hidden /\ ~journalRows[j].hidden
          /\ VisibleNameCount(journalRows, i) = 3
          /\ VisibleNameCount(journalRows, j) = 2
          /\ journalRows[i].bg = [num |-> 160, den |-> 2]
          /\ journalRows[j].bg = [num |-> 177, den |-> 2]

\* ------------------------------------------------------------------ C26
\* A full-form save fails: the else branch or the catch of saveChanges runs.
SaveFails(q) == q \in saveRequests /\ q \notin saveRequests' /\ saveTimers' = saveTimers

\* C26: when a full-form save fails (network error, HTTP status not OK, or an
\* answer whose status is not success) the save button of the row is enabled
\* and reads Save Changes again, no input of the form changes, no display cell
\* and no count of the table changes, and the detail row keeps its expansion.
C26_FailedSaveIsRetryable ==
    [][\A q \in saveRequests :
          SaveFails(q) =>
              /\ saveButton'[q.row] = [disabled |-> FALSE, text |-> SaveLabel]
              /\ formInputs' = formInputs
              /\ cellText' = cellText /\ changedCell' = changedCell
              /\ rowData' = rowData /\ relevanceCell' = relevanceCell
              /\ counts' = counts /\ visibleCountCell' = visibleCountCell
              /\ expanded' = expanded]_vars

\* A save of a form into which the user typed has failed: the row is still
\* expanded, the input holds what was typed and the button can be pressed.
C26_Witness ==
    \E r \in Rows :
        /\ ~saveBtnInMainRow
        /\ formInputs[r].page_count = <<"7">>
        /\ rowData[r].pages # <<"7">>
        /\ Detail(r) \in expanded
        /\ saveRequests = {} /\ saveTimers = {} /\ requests = {}
        /\ events >= 3
        /\ saveButton[r] = [disabled |-> FALSE, text |-> SaveLabel]
        /\ relevanceCell[r] = <<>>

\* ------------------------------------------------------------------ C30
\* No quick edit and no save of row r is in flight, and no timer of a save of
\* row r is pending.
RowSettled(r) ==
    /\ \A q \in requests : q.row # r
    /\ \A q \in saveRequests : q.row # r
    /\ \A t \in saveTimers : t.row # r

\* C30: when the row passed to sendAjaxRequest contains the save button, which
\* every row is rendered with enabled, then once all quick edits and saves of a
\* row have completed and their timers have fired the button is enabled.
C30_SaveButtonRestored ==
    saveBtnInMainRow =>
        \A r \in Rows : RowSettled(r) => ~saveButton[r].disabled

\* ------------------------------------------------------------------ C27
\* The answer to the per-row request q arrives, or its fetch fails.
RowActionCompletes(q) == q \in actionRequests /\ q \notin actionRequests'

\* C27: when a per-row classify or verify request fails, the display cells of
\* the table and the displayed counts keep their values; after any outcome of
\* the request its button is enabled and carries the label it was rendered with.
C27_RowActionFailureKeepsRow ==
    [][\A q \in actionRequests :
          RowActionCompletes(q) =>
              /\ actionButton'[q.row][q.actionType] =
                     [disabled |-> FALSE, text |-> ActionLabel(q.actionType)]
              /\ (\E kind \in FailureKinds : RowActionFailure(q, kind)) =>
                     /\ cellText' = cellText /\ changedCell' = changedCell
                     /\ rowData' = rowData /\ relevanceCell' = relevanceCell
                     /\ verifySpan' = verifySpan
                     /\ counts' = counts
                     /\ visibleCountCell' = visibleCountCell]_vars

\* A classify request of a row has failed after a verify request of the same
\* row succeeded: the cells show the verify answer and both buttons are enabled
\* under their labels.
C27_Witness ==
    \E r \in Rows :
        /\ actionRequests = {}
        /\ events >= 3
        /\ changedCell[r] = "t2"
        /\ \A a \in ActionTypes :
              actionButton[r][a] = [disabled |-> FALSE, text |-> ActionLabel(a)]

\* ------------------------------------------------------------------ C28
\* What the claim says of the parameters p of a request built while the
\* controls hold ctl.
RequestCarries(p, ctl) ==
    LET holdsNumber(text) == Trim(text) # <<>> /\ ~ParseInt(Trim(text)).nan
    IN  /\ p.hide_offtopic.present
        /\ p.hide_offtopic.value = (IF ctl.hideOfftopic THEN <<"1">> ELSE <<"0">>)
        /\ p.year_from.present <=> holdsNumber(ctl.yearFrom)
        /\ p.year_to.present <=> holdsNumber(ctl.yearTo)
        /\ p.min_page_count.present <=> holdsNumber(ctl.minPages)
        /\ p.search_query.present <=> Trim(ctl.search) # <<>>

\* C28: every request applyServerSideFilters builds carries hide_offtopic as 0
\* or 1 after the checkbox, and carries year_from, year_to, min_page_count and
\* search_query exactly when the trimmed control is non-empty and, for the
\* numeric ones, parseInt reads a number from it.
C28_RequestParameters ==
    [][Len(loadLog') > Len(loadLog) =>
          RequestCarries(loadLog'[Len(loadLog')], controls')]_vars

\* A request was built while year-from held text that is no number, year-to a
\* number followed by text and the search box blanks only.
C28_Witness ==
    /\ loadLog # <<>>
    /\ controls.yearFrom = <<"x">>
    /\ controls.yearTo = <<"5", "x">>
    /\ controls.search = <<" ">>
    /\ ~loadLog[Len(loadLog)].year_from.present
    /\ loadLog[Len(loadLog)].year_to = Param(<<"5", "x">>)
    /\ ~loadLog[Len(loadLog)].search_query.present
    /\ loadLog[Len(loadLog)].hide_offtopic = Param(<<"1">>)

\* ------------------------------------------------------------------ C29
\* The glyph that stands for a value a request carries.
GlyphOfValue(value) == CHOOSE g \in StatusGlyphs : SemanticValue[g] = value

\* No quick edit of the status cell of row r is in flight.
StatusCellSettled(reqs, r) ==
    \A q \in reqs : ~(q.row = r /\ q.field = "is_offtopic")

\* The answer to q, the latest request issued, arrives last and reports
\* success.
LatestRequestSucceedsLast(q) ==
    /\ q \in requests /\ q \notin requests'
    /\ q.id = events
    /\ StatusCellSettled(requests', q.row)
    /\ changedCell'[q.row] = "t1"
    /\ \E data \in SuccessData : AjaxSuccess(q, data)

\* C29: once every quick edit issued for a status cell has completed, the cell
\* shows the glyph of the value the last successful request carried (checked
\* where that request is the latest issued and the last answered, so that
\* both readings of "last" agree), or the glyph it was loaded with when no
\* request succeeded.
C29_LastRequestWins ==
    /\ [][\A q \in requests :
             LatestRequestSucceedsLast(q) =>
                 cellText'[q.row]["is_offtopic"] = GlyphOfValue(q.value)]_vars
    /\ [](\A r \in Rows :
             (StatusCellSettled(requests, r) /\ changedCell[r] = "t0") =>
                 cellText[r]["is_offtopic"] = FixtureCells(r).is_offtopic)

\* ------------------------------------------------------------------ C31
\* A batch has been acknowledged with status started: the status line shows
\* the message of the answer.
BatchAcknowledged(message) == message = "started"

\* C31: once a batch has been acknowledged with status started, the flag is set
\* and the four batch buttons are disabled, and they stay so: no later step
\* sends another start request or changes the status line.
C31_StartedBatchLocksPage ==
    /\ [][BatchAcknowledged(batchStatusMessage) =>
             /\ BatchAcknowledged(batchStatusMessage')
             /\ batchRequests' = {}]_vars
    /\ [](BatchAcknowledged(batchStatusMessage) =>
             /\ isBatchRunning
             /\ batchRequests = {}
             /\ \A b \in BatchButtons : batchDisabled[b])

\* A batch was acknowledged and the events that followed, confirmed calls of
\* runBatchAction among them, are used up with nothing in flight.
C31_Witness ==
    /\ BatchAcknowledged(batchStatusMessage)
    /\ isBatchRunning
    /\ events = MaxEvents
    /\ detailRequests = {} /\ loadRequests = {}
    /\ expanded = {} /\ loadLog = <<>>

\* ------------------------------------------------------------------ C32
\* The start request q is answered by anything but status started, or fails.
BatchStartFails(q) ==
    /\ q \in batchRequests /\ q \notin batchRequests'
    /\ ~BatchAcknowledged(batchStatusMessage')

\* C32: when the start request of a batch fails or is answered with a status
\* other than started, the flag is cleared and the four batch buttons are
\* enabled; a call of runBatchAction whose confirmation is declined sends no
\* request and changes nothing on the page.
C32_FailedBatchStartIsRepeatable ==
    [][/\ \A q \in batchRequests :
              BatchStartFails(q) =>
                  /\ ~isBatchRunning'
                  /\ \A b \in BatchButtons : ~batchDisabled'[b]
       /\ \A b \in BatchButtons :
              (events' # events /\ runBatchAction(b.mode, b.actionType, FALSE)) =>
                  /\ batchRequests' = batchRequests
                  /\ isBatchRunning' = isBatchRunning
                  /\ batchDisabled' = batchDisabled
                  /\ batchStatusMessage' = batchStatusMessage
                  /\ UNCHANGED <<rowData, tbody, filterHidden, expanded, cellText,
                                 changedCell, controls, counts, url,
                                 loadRequests, detailRequests, placeholder>>]_vars

\* A start request failed and the action has been repeated: the second start
\* request is in flight, the first having left an empty status line or the
\* error text behind before Starting was written again.
C32_Witness ==
    /\ \E q \in batchRequests : q.id = 2
    /\ batchStatusMessage = "Starting"
    /\ isBatchRunning
    /\ detailLog = [r \in Rows |-> 0]
    /\ loadLog = <<>>

\* ------------------------------------------------------------------ C33
\* The table body and the query string that the answer to a /load_table
\* request with these parameters writes.
FromRequest(params, body, query) ==
    /\ body = RenderedRows(LoadTable(params))
    /\ query = params

\* The table body and the query string of the page as first loaded.
AsLoaded(body, query) ==
    /\ body = RenderedBody(NumRows)
    /\ query = EmptyQuery

\* C33: after any interleaving of /load_table answers the query string of
\* the URL and the table body come from the same request: a successful
\* answer writes the body rendered for its own parameters and exactly those
\* parameters to the URL, a failed one changes neither, so in every state the
\* two are those of the page as loaded or those of one request sent.
C33_UrlAndBodyFromSameRequest ==
    /\ [][\A q \in loadRequests :
              /\ (q \notin loadRequests' /\ LoadTableSuccess(q)) =>
                     FromRequest(q.params, tbody', url')
              /\ (q \notin loadRequests' /\ LoadTableFailure(q)) =>
                     (tbody' = tbody /\ url' = url)]_vars
    /\ [](\/ AsLoaded(tbody, url)
          \/ \E i \in DOMAIN loadLog : FromRequest(loadLog[i], tbody, url))

\* Two requests with different parameters were answered, the second first,
\* and the page shows the body and the query string of the first.
C33_Witness ==
    /\ Len(loadLog) = 2
    /\ loadLog[1] # loadLog[2]
    /\ loadRequests = {}
    /\ FromRequest(loadLog[1], tbody, url)
    /\ tbody # RenderedRows(LoadTable(loadLog[2]))
    /\ ~busyCursor

\* ------------------------------------------------------------------ C34
\* The paper ids of the visible main rows of a table body, in order.
RowOrder(tb, hid) ==
    LET rows == VisibleMainRows(tb, hid)
    IN  [i \in 1..Len(rows) |-> PaperId(rows[i].row)]

Reverse(seq) == [i \in 1..Len(seq) |-> seq[Len(seq) + 1 - i]]

\* The row order a header-click sort on the column in the direction produces
\* from the table of the state.
SortedOrder(sortBy, newDirection) ==
    RowOrder(SortedBody(tbody, filterHidden, sortBy, newDirection, rowData,
                        cellText),
             filterHidden)

\* Every column the header click handler is modelled for.
AllSortColumns == SortColumns \cup SortKeyColumns

\* C34: for every table the page can hold (row ids pairwise distinct) and
\* every sort column, the row order a DESC sort produces is exactly the
\* reverse of the row order an ASC sort produces from the same table.
C34_DescIsReverseOfAsc ==
    \A sortBy \in AllSortColumns :
        SortedOrder(sortBy, "DESC") = Reverse(SortedOrder(sortBy, "ASC"))

\* An ASC sort has just ordered a table in which two rows tie on the primary
\* value of the sorted column; the DESC order of this table differs.
C34_Witness ==
    /\ currentClientSort.column # "null"
    /\ currentClientSort.direction = "ASC"
    /\ rafPending
    /\ \E a, b \in Rows : a # b /\ Tied(a, b, currentClientSort)
    /\ RowOrder(tbody, filterHidden) = SortedOrder(currentClientSort.column, "ASC")
    /\ SortedOrder(currentClientSort.column, "DESC") # RowOrder(tbody, filterHidden)

\* ------------------------------------------------------------------ C35
\* C35 as claimed: whenever the busy-cursor marker is set it is eventually
\* removed when the triggered pipeline ends, also when the table contains a
\* malformed row.
C35_BusyCursorEventuallyRemoved == busyCursor ~> ~busyCursor

\* The part of C35 that holds: on a table in which every visible main row has
\* its detail row, a busy cursor set by a filter input is eventually removed.
BusyCursorRemovedOnPairedRows ==
    (busyCursor /\ tbody = RenderedBody(NumRows)) ~> ~busyCursor

\* ------------------------------------------------------------------ C36
\* C36 as claimed: the highlight a quick-cycle click sets on a status cell is
\* brief: whatever the outcome of the request, the order of answer and timer
\* and the further clicks, once all timers have fired and all requests have
\* completed no status cell carries the highlight background.
C36_HighlightCleared ==
    (flashTimers = {} /\ requests = {}) =>
        \A r \in Rows : highlight[r]["is_offtopic"] = NoHighlight

\* The part of C36 that holds: a status cell that shows the symbol of its last
\* click when that click's timer fires loses the highlight.
HighlightClearedWhileSymbolStays ==
    [][\A t \in flashTimers :
           (t \notin flashTimers' /\ cellText[t.row][t.field] = t.nextSymbol
            /\ t.field = "is_offtopic") =>
               highlight'[t.row][t.field] = NoHighlight]_vars

\* ------------------------------------------------------------------ C37
\* The placeholder of row r shows the error message of a failed fetch.
ShowsError(content) == content = "error"

\* C37: a failed /get_detail_row fetch (error answer or network failure) is
\* never retried: the placeholder it was sent for shows an error message
\* afterwards, and while a row shows the error message no step sends a request
\* for it, and a collapse or re-expansion of the row leaves the message in
\* place.
C37_FailedDetailFetchNotRetried ==
    [][/\ \A q \in detailRequests :
              (q \notin detailRequests' /\ q.attached
               /\ \E kind \in DetailFailureKinds : DetailFailure(q, kind)) =>
                  ShowsError(placeholder'[q.row])
       /\ \A r \in Rows :
              ShowsError(placeholder[r]) =>
                  /\ detailLog'[r] = detailLog[r]
                  /\ (events' # events /\ toggleDetails_filtering(r)) =>
                         ShowsError(placeholder'[r])]_vars

\* The only request for a row has failed, and the row has been collapsed and
\* expanded again: it shows the error message and no request is in flight.
C37_Witness ==
    \E r \in Rows :
        /\ ShowsError(placeholder[r])
        /\ Detail(r) \in expanded
        /\ detailLog[r] = 1
        /\ detailRequests = {}
        /\ events >= 3
        /\ loadLog = <<>>

\* ------------------------------------------------------------------ C38
\* The step is a quick-edit click or the handling of an /update_paper answer.
QuickEditStep == requests' # requests

\* C38: a quick-edit click and the handling of its answer change no
\* visibility marker and not the row order; the expanded state changes only
\* through toggleDetails, so neither a filter pass nor a header-click sort
\* changes whether a detail row is expanded; and a second toggle on the same
\* row restores the expanded state the first one found.
C38_FrameOfEditsAndToggles ==
    [][/\ QuickEditStep => (filterHidden' = filterHidden /\ tbody' = tbody)
       /\ expanded' # expanded =>
              (events' # events /\ \E r \in Rows : toggleDetails(r))
       /\ \A r \in Rows :
              (events' # events /\ toggleDetails(r)) =>
                  ToggleExpanded(expanded', tbody', r) = expanded]_vars

\* A detail row was expanded; afterwards a filter pass hid a row and a sort
\* ran, and the detail row is still expanded.
C38_Witness ==
    /\ expanded # {}
    /\ filterHidden # {}
    /\ currentClientSort.column # "null"
    /\ taskQueue = <<>>
    /\ ~filterTimeoutId

====
